---- MODULE Spec2Model ----
(***************************************************************************)
(* Verification model of the hydronics designer: the thermal simulation    *)
(* engine (calc/simulation), the heat-loss model (calc/heatLoss) and the   *)
(* zone classification and orthogonal routing of calc/autoLayout.          *)
(*                                                                         *)
(* JavaScript numbers are modelled as exact rationals extended with NaN    *)
(* and the two infinities, so that a division by zero, Infinity * 0 and    *)
(* the comparisons with NaN behave as IEEE-754 makes them behave.  The     *)
(* rounding error of finite doubles and the sign of zero are not           *)
(* modelled.                                                               *)
(***************************************************************************)
EXTENDS Integers, Sequences, FiniteSets, TLC

VARIABLES pc, call, ret, store, steps

vars == <<pc, call, ret, store, steps>>

(***************************************************************************)
(* Numbers                                                                 *)
(***************************************************************************)
Abs(i) == IF i < 0 THEN -i ELSE i

RECURSIVE GCD(_, _)
GCD(a, b) == IF b = 0 THEN a ELSE GCD(b, a % b)

\* the finite number n/d (d # 0), in lowest terms with a positive denominator
Q(n, d) ==
  LET g == GCD(Abs(n), Abs(d))
      s == IF d < 0 THEN -1 ELSE 1
  IN  [k |-> "fin", n |-> s * (n \div g), d |-> s * (d \div g)]

I(n) == [k |-> "fin", n |-> n, d |-> 1]
NaN == [k |-> "nan", n |-> 0, d |-> 1]
PInf == [k |-> "pinf", n |-> 1, d |-> 1]
NInf == [k |-> "ninf", n |-> -1, d |-> 1]
null == [k |-> "null", n |-> 0, d |-> 1]

IsNaN(a) == a.k = "nan"
IsFin(a) == a.k = "fin"
IsInf(a) == a.k \in {"pinf", "ninf"}
\* Number.isFinite
isFinite(a) == a.k = "fin"
\* -1, 0 or 1; of a number that is not NaN
Sgn(a) == IF a.n < 0 THEN -1 ELSE IF a.n > 0 THEN 1 ELSE 0
InfOf(s) == IF s < 0 THEN NInf ELSE PInf

\* a + b
Add(a, b) ==
  IF IsNaN(a) \/ IsNaN(b) THEN NaN
  ELSE IF IsInf(a) /\ IsInf(b) THEN (IF a = b THEN a ELSE NaN)
  ELSE IF IsInf(a) THEN a
  ELSE IF IsInf(b) THEN b
  ELSE LET g == GCD(a.d, b.d)
           l == (a.d \div g) * b.d
       IN  Q(a.n * (l \div a.d) + b.n * (l \div b.d), l)

\* -a
Neg(a) ==
  IF IsNaN(a) THEN NaN
  ELSE IF IsInf(a) THEN InfOf(-Sgn(a))
  ELSE [k |-> "fin", n |-> -a.n, d |-> a.d]

\* a - b
Sub(a, b) == Add(a, Neg(b))

\* a * b
Mul(a, b) ==
  IF IsNaN(a) \/ IsNaN(b) THEN NaN
  ELSE IF IsInf(a) \/ IsInf(b)
       THEN (IF Sgn(a) = 0 \/ Sgn(b) = 0 THEN NaN ELSE InfOf(Sgn(a) * Sgn(b)))
  ELSE LET g1 == GCD(Abs(a.n), b.d)
           g2 == GCD(Abs(b.n), a.d)
       IN  Q((a.n \div g1) * (b.n \div g2), (a.d \div g2) * (b.d \div g1))

\* a / b
Div(a, b) ==
  IF IsNaN(a) \/ IsNaN(b) THEN NaN
  ELSE IF IsInf(a) /\ IsInf(b) THEN NaN
  ELSE IF IsInf(a) THEN InfOf(Sgn(a) * (IF Sgn(b) < 0 THEN -1 ELSE 1))
  ELSE IF IsInf(b) THEN I(0)
  ELSE IF b.n = 0 THEN (IF a.n = 0 THEN NaN ELSE InfOf(Sgn(a)))
  ELSE Mul(a, Q(b.d, b.n))

\* a < b
Lt(a, b) ==
  IF IsNaN(a) \/ IsNaN(b) THEN FALSE
  ELSE IF a.k = "pinf" \/ b.k = "ninf" THEN FALSE
  ELSE IF a.k = "ninf" \/ b.k = "pinf" THEN TRUE
  ELSE a.n * b.d < b.n * a.d

\* a === b
Eq(a, b) == ~IsNaN(a) /\ ~IsNaN(b) /\ a = b
\* a <= b
Le(a, b) == Lt(a, b) \/ Eq(a, b)
\* a > b
Gt(a, b) == Lt(b, a)
\* a >= b
Ge(a, b) == Le(b, a)

\* Math.min(a, b)
MathMin(a, b) == IF IsNaN(a) \/ IsNaN(b) THEN NaN ELSE IF Lt(b, a) THEN b ELSE a
\* Math.max(a, b)
MathMax(a, b) == IF IsNaN(a) \/ IsNaN(b) THEN NaN ELSE IF Lt(a, b) THEN b ELSE a
\* Math.abs(a)
MathAbs(a) == IF IsNaN(a) THEN NaN ELSE IF IsInf(a) THEN PInf ELSE [a EXCEPT !.n = Abs(a.n)]
\* Math.round(a): the nearest integer, a tie rounded towards +Infinity
MathRound(a) == IF IsFin(a) THEN I((2 * a.n + a.d) \div (2 * a.d)) ELSE a

\* truthiness of a number: 0 and NaN are falsy
Truthy(a) == ~IsNaN(a) /\ a.k # "null" /\ ~(IsFin(a) /\ a.n = 0)
\* a || b
OrElse(a, b) == IF Truthy(a) THEN a ELSE b

\* Math.sqrt(a); exact on the ratios of perfect squares the model's buildings use
ISqrt(i) == CHOOSE r \in 0..i : r * r <= i /\ i < (r + 1) * (r + 1)
MathSqrt(a) ==
  IF IsNaN(a) \/ a.k = "ninf" THEN NaN
  ELSE IF a.k = "pinf" THEN PInf
  ELSE IF a.n < 0 THEN NaN
  ELSE Q(ISqrt(a.n), ISqrt(a.d))

(***************************************************************************)
(* Strings that the code searches are sequences of one-character strings   *)
(***************************************************************************)
\* String.prototype.toLowerCase, on the letters the model's names use
LowerOf(c) ==
  CASE c = "F" -> "f" [] c = "G" -> "g" [] c = "A" -> "a" [] c = "Z" -> "z"
    [] c = "V" -> "v" [] c = "P" -> "p" [] c = "B" -> "b" [] c = "R" -> "r"
    [] OTHER -> c
toLowerCase(s) == [i \in 1..Len(s) |-> LowerOf(s[i])]
\* String.prototype.includes
includes(s, t) ==
  \E i \in 1..(Len(s) - Len(t) + 1) : SubSeq(s, i, i + Len(t) - 1) = t
\* s.split(' ')[0]
FirstWord(s) ==
  IF \E i \in 1..Len(s) : s[i] = " "
  THEN SubSeq(s, 1, (CHOOSE i \in 1..Len(s) :
                       s[i] = " " /\ \A j \in 1..(i - 1) : s[j] # " ") - 1)
  ELSE s

(***************************************************************************)
(* calc/heatLoss                                                           *)
(***************************************************************************)
rToU(r) == IF Gt(r, I(0)) THEN Div(I(1), r) ELSE I(1)

deltaT(b) == Sub(b.climate.indoorDesignTemp, b.climate.designOutdoorTemp)

estimateWallArea(b) ==
  LET footprintSqFt == Div(b.totalSqFt, b.floors)
      side == MathSqrt(footprintSqFt)
      perimeter == Mul(I(4), side)
      grossWall == Mul(Mul(perimeter, b.ceilingHeight), b.floors)
      windowArea == b.windowDoor.totalWindowArea
      doorArea == Mul(b.windowDoor.exteriorDoorCount, b.windowDoor.doorArea)
  IN  MathMax(I(0), Sub(Sub(grossWall, windowArea), doorArea))

buildingVolume(b) == Mul(b.totalSqFt, b.ceilingHeight)

infiltrationCFM(b) == Div(Mul(buildingVolume(b), b.infiltration.ach), I(60))

calculateHeatLoss(b) ==
  LET dt == deltaT(b)
      walls == Mul(Mul(rToU(b.insulation.walls), estimateWallArea(b)), dt)
      windows == Mul(Mul(b.windowDoor.windowUValue, b.windowDoor.totalWindowArea), dt)
      doorArea == Mul(b.windowDoor.exteriorDoorCount, b.windowDoor.doorArea)
      doors == Mul(Mul(b.windowDoor.doorUValue, doorArea), dt)
      ceilingArea == Div(b.totalSqFt, b.floors)
      ceiling == Mul(Mul(rToU(b.insulation.ceiling), ceilingArea), dt)
      floorArea == Div(b.totalSqFt, b.floors)
      floorDt == IF b.foundationType = "slab" THEN dt
                 ELSE Sub(b.climate.indoorDesignTemp, I(55))
      floor == Mul(Mul(rToU(b.insulation.floor), floorArea), MathMax(I(0), floorDt))
      infiltration == Mul(Mul(Q(18, 1000), infiltrationCFM(b)), dt)
      total == Add(Add(Add(Add(Add(walls, windows), doors), ceiling), floor), infiltration)
  IN  [walls |-> walls, windows |-> windows, doors |-> doors, ceiling |-> ceiling,
       floor |-> floor, infiltration |-> infiltration, total |-> total]

\* the entry of the one zone z of the result map
ZoneAllocation(totalLoss, totalSqFt, z) ==
  IF z.heatLossOverride # null THEN z.heatLossOverride
  ELSE Mul(Div(z.sqFt, totalSqFt), totalLoss)

\* index of the last zone with this id: a later Map.set of the same key wins
LastZone(zs, id) == CHOOSE i \in 1..Len(zs) :
                      zs[i].id = id /\ \A j \in (i + 1)..Len(zs) : zs[j].id # id

\* Map<zone id, BTU/hr>, as a function on the zone ids
allocateZoneHeatLoss(totalLoss, totalSqFt, zs) ==
  [id \in {zs[i].id : i \in 1..Len(zs)} |->
     ZoneAllocation(totalLoss, totalSqFt, zs[LastZone(zs, id)])]

requiredGPM(btu, dT) == IF Le(dT, I(0)) THEN I(0) ELSE Div(btu, Mul(I(500), dT))

btuFromFlow(gpm, dT) == Mul(Mul(gpm, I(500)), dT)


(***************************************************************************)
(* calc/autoLayout: zone classification                                    *)
(***************************************************************************)
mechanical == <<"m", "e", "c", "h", "a", "n", "i", "c", "a", "l">>

mechanicalTypes ==
  {"boiler_gas", "boiler_oil", "boiler_electric", "heat_pump_a2w", "pump_fixed",
   "pump_variable", "air_separator", "expansion_tank", "buffer_tank",
   "hydraulic_separator", "pressure_relief", "fill_valve", "air_vent"}

emitterTypes ==
  {"baseboard", "panel_radiator", "cast_iron_radiator", "radiant_floor",
   "fan_coil", "towel_warmer"}

\* Map.set: a new key is added, the value of an existing key is replaced
MapSet(m, key, v) == (key :> v) @@ m

\* adjacency.get(id), in the insertion order of the Set (a repeated neighbour
\* is kept: every reader stops at the first neighbour that qualifies)
RECURSIVE Neighbors(_, _)
Neighbors(conns, id) ==
  IF conns = <<>> THEN <<>>
  ELSE LET c == Head(conns)
           a == IF c.fromComponentId = id THEN <<c.toComponentId>> ELSE <<>>
           b == IF c.toComponentId = id THEN <<c.fromComponentId>> ELSE <<>>
       IN  a \o b \o Neighbors(Tail(conns), id)

\* the condition of the name heuristic, name already lower-cased
NameMatchesZone(name, zone) ==
  LET zoneName == toLowerCase(zone.name)
  IN  \/ includes(name, zone.id)
      \/ /\ includes(zoneName, <<"f", "l", "o", "o", "r", " ", "1">>)
         /\ \/ includes(name, <<"1", "f">>)
            \/ includes(name, <<"g", "a", "r", "a", "g", "e">>)
      \/ /\ includes(zoneName, <<"f", "l", "o", "o", "r", " ", "2">>)
         /\ \/ includes(name, <<"2", "f">>)
            \/ includes(name, <<"f", "l", "o", "o", "r", " ", "2">>)
      \/ /\ includes(zoneName, <<"f", "l", "o", "o", "r", " ", "3">>)
         /\ \/ includes(name, <<"3", "f">>)
            \/ includes(name, <<"f", "l", "o", "o", "r", " ", "3">>)
      \/ /\ includes(zoneName, <<"g", "a", "r", "a", "g", "e">>)
         /\ includes(name, <<"g", "a", "r", "a", "g", "e">>)
      \/ includes(name, toLowerCase(FirstWord(zone.name)))

\* first pass: assign by component type
FirstPass(comps) ==
  [id \in {comps[i].id : i \in {j \in 1..Len(comps) : comps[j].type \in mechanicalTypes}}
     |-> mechanical]

\* the first neighbour, in order, whose zone satisfies the test of the pass
FirstNeighbor(m, ns, allowMechanical) ==
  LET ok(j) == /\ ns[j] \in DOMAIN m
               /\ m[ns[j]] # <<>>
               /\ (allowMechanical \/ m[ns[j]] # mechanical)
  IN  IF \E j \in 1..Len(ns) : ok(j)
      THEN CHOOSE j \in 1..Len(ns) : ok(j) /\ \A h \in 1..(j - 1) : ~ok(h)
      ELSE 0

\* second pass: the name heuristic, the zone valves' neighbours, the emitters' fallback
RECURSIVE SecondPass(_, _, _, _, _)
SecondPass(i, m, comps, conns, zs) ==
  IF i > Len(comps) THEN m
  ELSE IF comps[i].id \in DOMAIN m THEN SecondPass(i + 1, m, comps, conns, zs)
  ELSE
    LET comp == comps[i]
        name == toLowerCase(comp.name)
        hit(z) == NameMatchesZone(name, zs[z])
        byName == IF \E z \in 1..Len(zs) : hit(z)
                  THEN MapSet(m, comp.id,
                         zs[CHOOSE z \in 1..Len(zs) : hit(z) /\ \A y \in 1..(z - 1) : ~hit(y)].id)
                  ELSE m
        ns == Neighbors(conns, comp.id)
        n == FirstNeighbor(byName, ns, FALSE)
        byValve == IF comp.type \in {"zone_valve_2way", "zone_valve_3way"} /\ n # 0
                   THEN MapSet(byName, comp.id, byName[ns[n]])
                   ELSE byName
        byFallback == IF comp.id \notin DOMAIN byValve /\ comp.type \in emitterTypes
                         /\ Len(zs) > 0
                      THEN MapSet(byValve, comp.id, zs[1].id)
                      ELSE byValve
    IN  SecondPass(i + 1, byFallback, comps, conns, zs)

\* third pass: inherit a neighbour's zone, else the mechanical room
RECURSIVE ThirdPass(_, _, _, _)
ThirdPass(i, m, comps, conns) ==
  IF i > Len(comps) THEN m
  ELSE IF comps[i].id \in DOMAIN m THEN ThirdPass(i + 1, m, comps, conns)
  ELSE
    LET ns == Neighbors(conns, comps[i].id)
        n == FirstNeighbor(m, ns, TRUE)
    IN  ThirdPass(i + 1,
                  MapSet(m, comps[i].id, IF n # 0 THEN m[ns[n]] ELSE mechanical),
                  comps, conns)

\* mutant: the name-heuristic pass is left out
buildComponentZoneMap_NoNamePass(comps, conns, zs) ==
  ThirdPass(1, FirstPass(comps), comps, conns)

buildComponentZoneMap(comps, conns, zs) ==
  ThirdPass(1, SecondPass(1, FirstPass(comps), comps, conns, zs), comps, conns)


(***************************************************************************)
(* calc/simulation                                                         *)
(***************************************************************************)
\* mutant: the design delta-T is not guarded
scaleHeatLossToOutdoorTemp_NoDesignGuard(designLoss, indoorTemp, outdoor, designOutdoorTemp) ==
  LET designDeltaT == Sub(indoorTemp, designOutdoorTemp)
      currentDeltaT == Sub(indoorTemp, outdoor)
  IN  IF Le(currentDeltaT, I(0)) THEN I(0)
      ELSE Mul(designLoss, Div(currentDeltaT, designDeltaT))

scaleHeatLossToOutdoorTemp(designLoss, indoorTemp, outdoor, designOutdoorTemp) ==
  LET designDeltaT == Sub(indoorTemp, designOutdoorTemp)
      currentDeltaT == Sub(indoorTemp, outdoor)
  IN  IF Le(designDeltaT, I(0)) THEN I(0)
      ELSE IF Le(currentDeltaT, I(0)) THEN I(0)
      ELSE Mul(designLoss, Div(currentDeltaT, designDeltaT))

\* mutant: a zone calls as soon as its loss is not negative
IsCalling_NotNegative(currentLoss) == Ge(currentLoss, I(0))

\* simplified thermostat: the zone calls for heat when currentLoss > 0
IsCalling(currentLoss) == Gt(currentLoss, I(0))

\* one ZoneDemand; its zoneValveId, which nothing downstream reads, is left out
ZoneDemandOf(b, zone, alloc, outdoor) ==
  LET designLoss == OrElse(alloc[zone.id], I(0))
      currentLoss == scaleHeatLossToOutdoorTemp(designLoss, b.climate.indoorDesignTemp,
                                                outdoor, b.climate.designOutdoorTemp)
  IN  [zoneId |-> zone.id, zoneName |-> zone.name, sqFt |-> zone.sqFt,
       designHeatLoss |-> designLoss, currentHeatLoss |-> currentLoss,
       isCalling |-> IsCalling(currentLoss),
       designWaterTemp |-> zone.designWaterTemp, emitterType |-> zone.emitterType]

calculateZoneDemands(b, zs, comps, conns, outdoor) ==
  IF Len(zs) = 0 THEN <<>>
  ELSE LET alloc == allocateZoneHeatLoss(calculateHeatLoss(b).total, b.totalSqFt, zs)
       IN  [i \in 1..Len(zs) |-> ZoneDemandOf(b, zs[i], alloc, outdoor)]

\* the boiler is off
BoilerOff ==
  [firingRate |-> I(0), outputBtu |-> I(0), supplyTemp |-> I(70), returnTemp |-> I(70),
   flowGpm |-> I(0), status |-> "off"]

\* mutant: the firing rate is not capped at 100%
ClampFiringRate_NoCap(rate, minFiringRate) ==
  IF Lt(rate, minFiringRate) THEN minFiringRate ELSE rate

\* the clamp of the firing rate to the boiler's modulation range
ClampFiringRate(rate, minFiringRate) ==
  IF Lt(rate, minFiringRate) THEN minFiringRate
  ELSE IF Gt(rate, I(1)) THEN I(1)
  ELSE rate

calculateBoilerState(boilerComp, totalDemandBtu, anyZoneCalling) ==
  LET props == boilerComp.props
      maxOutputBtu == Mul(props.inputBtu, props.afue)
      firingRate == ClampFiringRate(Div(totalDemandBtu, maxOutputBtu), props.minFiringRate)
      outputBtu == Mul(maxOutputBtu, firingRate)
      baseSupplyTemp == I(140)
      maxSupplyTemp == MathMin(props.maxSupplyTemp, I(180))
      supplyTemp == Add(baseSupplyTemp, Mul(Sub(maxSupplyTemp, baseSupplyTemp), firingRate))
      dT == I(20)
      returnTemp == Sub(supplyTemp, dT)
      flowGpm == requiredGPM(outputBtu, dT)
  IN  IF ~anyZoneCalling \/ Le(totalDemandBtu, I(0)) THEN BoilerOff
      ELSE [firingRate |-> firingRate, outputBtu |-> outputBtu,
            supplyTemp |-> MathRound(supplyTemp), returnTemp |-> MathRound(returnTemp),
            flowGpm |-> Div(MathRound(Mul(flowGpm, I(10))), I(10)),
            status |-> "firing"]

\* the flow of a zone that gets none
ZoneFlowOff(zone) ==
  [zoneId |-> zone.zoneId, flowGpm |-> I(0), supplyTemp |-> I(70), returnTemp |-> I(70),
   btuDelivered |-> I(0)]

\* activeZones.reduce((sum, z) => sum + z.currentHeatLoss, 0)
RECURSIVE SumCurrentHeatLoss(_, _)
SumCurrentHeatLoss(ds, callingOnly) ==
  IF ds = <<>> THEN I(0)
  ELSE LET n == Len(ds)
           rest == SumCurrentHeatLoss(SubSeq(ds, 1, n - 1), callingOnly)
       IN  IF callingOnly /\ ~ds[n].isCalling THEN rest
           ELSE Add(rest, ds[n].currentHeatLoss)

\* mutant: the demand of every zone, calling or not
ActiveDemand_AllZones(zoneDemands) == SumCurrentHeatLoss(zoneDemands, FALSE)

\* the total demand of the active (calling) zones
ActiveDemand(zoneDemands) == SumCurrentHeatLoss(zoneDemands, TRUE)

\* mutant: a radiant zone is supplied at its design temperature, without the cap
ZoneFlowOn_NoCap(zone, totalDemand, boilerState) ==
  LET demandRatio == Div(zone.currentHeatLoss, totalDemand)
      flowGpm == Mul(boilerState.flowGpm, demandRatio)
      supplyTemp == IF zone.emitterType = "radiant_floor"
                    THEN zone.designWaterTemp
                    ELSE boilerState.supplyTemp
      dT == IF Gt(flowGpm, I(0)) THEN Div(zone.currentHeatLoss, Mul(I(500), flowGpm))
            ELSE I(0)
      returnTemp == Sub(supplyTemp, MathMin(dT, I(30)))
  IN  [zoneId |-> zone.zoneId,
       flowGpm |-> Div(MathRound(Mul(flowGpm, I(10))), I(10)),
       supplyTemp |-> MathRound(supplyTemp), returnTemp |-> MathRound(returnTemp),
       btuDelivered |-> zone.currentHeatLoss]

\* the flow of a calling zone, its share of the boiler's flow
ZoneFlowOn(zone, totalDemand, boilerState) ==
  LET demandRatio == Div(zone.currentHeatLoss, totalDemand)
      flowGpm == Mul(boilerState.flowGpm, demandRatio)
      supplyTemp == IF zone.emitterType = "radiant_floor"
                    THEN MathMin(zone.designWaterTemp, I(120))
                    ELSE boilerState.supplyTemp
      dT == IF Gt(flowGpm, I(0)) THEN Div(zone.currentHeatLoss, Mul(I(500), flowGpm))
            ELSE I(0)
      returnTemp == Sub(supplyTemp, MathMin(dT, I(30)))
  IN  [zoneId |-> zone.zoneId,
       flowGpm |-> Div(MathRound(Mul(flowGpm, I(10))), I(10)),
       supplyTemp |-> MathRound(supplyTemp), returnTemp |-> MathRound(returnTemp),
       btuDelivered |-> zone.currentHeatLoss]

calculateZoneFlows(zoneDemands, boilerState) ==
  LET anyActive == \E i \in 1..Len(zoneDemands) : zoneDemands[i].isCalling
      totalDemand == ActiveDemand(zoneDemands)
  IN  IF ~anyActive \/ Le(boilerState.flowGpm, I(0))
      THEN [i \in 1..Len(zoneDemands) |-> ZoneFlowOff(zoneDemands[i])]
      ELSE [i \in 1..Len(zoneDemands) |->
              IF ~zoneDemands[i].isCalling \/ Le(totalDemand, I(0))
              THEN ZoneFlowOff(zoneDemands[i])
              ELSE ZoneFlowOn(zoneDemands[i], totalDemand, boilerState)]

\* the default state of a component
offState == [supplyTemp |-> I(70), returnTemp |-> I(70), flowGpm |-> I(0), status |-> "off"]

\* a missing zone flow (null)
noZoneFlow == [zoneId |-> <<>>, flowGpm |-> null, supplyTemp |-> null, returnTemp |-> null,
               btuDelivered |-> null]

calculateEmitterState(zoneFlow, emittersInZone) ==
  IF zoneFlow = noZoneFlow \/ Le(zoneFlow.flowGpm, I(0)) THEN offState
  ELSE LET flowGpm == Div(zoneFlow.flowGpm, MathMax(I(1), I(emittersInZone)))
       IN  [supplyTemp |-> zoneFlow.supplyTemp, returnTemp |-> zoneFlow.returnTemp,
            flowGpm |-> Div(MathRound(Mul(flowGpm, I(10))), I(10)),
            status |-> "running"]

EMITTER_TYPES ==
  {"baseboard", "panel_radiator", "cast_iron_radiator", "radiant_floor",
   "fan_coil", "towel_warmer"}
\* mutant: the mechanical-room types taken for the heat sources
BOILER_TYPES_Mechanical == mechanicalTypes
BOILER_TYPES == {"boiler_gas", "boiler_oil", "boiler_electric"}
PUMP_TYPES == {"pump_fixed", "pump_variable", "zone_pump"}
VALVE_TYPES == {"zone_valve_2way", "zone_valve_3way"}

\* index of the first boiler in the order of Object.entries, 0 when there is none
BoilerEntry(comps) ==
  IF \E i \in 1..Len(comps) : comps[i].type \in BOILER_TYPES
  THEN CHOOSE i \in 1..Len(comps) :
         comps[i].type \in BOILER_TYPES /\ \A j \in 1..(i - 1) : comps[j].type \notin BOILER_TYPES
  ELSE 0

\* index of the entry of a Map built from a list: the last element with the key, or 0
LastWithZoneId(list, zoneId) ==
  IF \E i \in 1..Len(list) : list[i].zoneId = zoneId
  THEN CHOOSE i \in 1..Len(list) :
         list[i].zoneId = zoneId /\ \A j \in (i + 1)..Len(list) : list[j].zoneId # zoneId
  ELSE 0

\* mutant: a pump follows the boiler's status instead of the zones' calls
PumpState_FollowsBoiler(boilerState, anyZoneCalling) ==
  [supplyTemp |-> boilerState.supplyTemp, returnTemp |-> boilerState.returnTemp,
   flowGpm |-> boilerState.flowGpm,
   status |-> IF boilerState.status = "firing" THEN "running" ELSE "off"]

\* a pump mirrors the boiler and runs when any zone calls
PumpState(boilerState, anyZoneCalling) ==
  [supplyTemp |-> boilerState.supplyTemp, returnTemp |-> boilerState.returnTemp,
   flowGpm |-> boilerState.flowGpm,
   status |-> IF anyZoneCalling THEN "running" ELSE "off"]

\* mutant: a valve opens when any zone calls, as a pump runs
IsValveOpen_AnyZone(zoneDemands, zoneId) ==
  \E i \in 1..Len(zoneDemands) : zoneDemands[i].isCalling

\* zoneDemand?.isCalling || false, zoneDemand the demand of the component's zone
IsValveOpen(zoneDemands, zoneId) ==
  LET d == IF zoneId # <<>> THEN LastWithZoneId(zoneDemands, zoneId) ELSE 0
  IN  d # 0 /\ zoneDemands[d].isCalling

\* a zone valve mirrors the flow of its zone
ValveState(zoneFlow, isValveOpen) ==
  [supplyTemp |-> OrElse(zoneFlow.supplyTemp, I(70)),
   returnTemp |-> OrElse(zoneFlow.returnTemp, I(70)),
   flowGpm |-> OrElse(zoneFlow.flowGpm, I(0)),
   status |-> IF isValveOpen THEN "running" ELSE "off"]

\* an air separator or an expansion tank shows the boiler's temperatures
PassiveState(boilerState, anyZoneCalling) ==
  [supplyTemp |-> boilerState.supplyTemp, returnTemp |-> boilerState.returnTemp,
   flowGpm |-> I(0),
   status |-> IF anyZoneCalling THEN "running" ELSE "off"]

\* step 8 of the tick, for one component that is not the boiler
ComponentStateOf(comp, comps, czm, zoneDemands, zoneFlows, boilerState, anyZoneCalling) ==
  LET zoneId == czm[comp.id]
      f == IF zoneId # <<>> THEN LastWithZoneId(zoneFlows, zoneId) ELSE 0
      zoneFlow == IF f # 0 THEN zoneFlows[f] ELSE noZoneFlow
      emitterCount == Cardinality({i \in 1..Len(comps) :
                         comps[i].type \in EMITTER_TYPES /\ czm[comps[i].id] = zoneId})
  IN  IF comp.type \in PUMP_TYPES THEN PumpState(boilerState, anyZoneCalling)
      ELSE IF comp.type \in VALVE_TYPES
      THEN ValveState(zoneFlow, IsValveOpen(zoneDemands, zoneId))
      ELSE IF comp.type \in EMITTER_TYPES
      THEN calculateEmitterState(zoneFlow, IF emitterCount = 0 THEN 1 ELSE emitterCount)
      ELSE IF comp.type \in {"air_separator", "expansion_tank"}
      THEN PassiveState(boilerState, anyZoneCalling)
      ELSE offState

\* steps 7 and 8 of the tick: the state of every component, the boiler known
TickStates(comps, boiler, czm, zoneDemands, zoneFlows, boilerState, anyZoneCalling) ==
  [id \in {comps[i].id : i \in 1..Len(comps)} |->
     IF id = comps[boiler].id
     THEN [supplyTemp |-> boilerState.supplyTemp, returnTemp |-> boilerState.returnTemp,
           flowGpm |-> boilerState.flowGpm, status |-> boilerState.status]
     ELSE ComponentStateOf(comps[CHOOSE i \in 1..Len(comps) : comps[i].id = id], comps,
                           czm, zoneDemands, zoneFlows, boilerState, anyZoneCalling)]

\* steps 5 and 6 of the tick: the zone flows, from the boiler's state
TickFlows(comps, boiler, czm, zoneDemands, boilerState, anyZoneCalling) ==
  TickStates(comps, boiler, czm, zoneDemands, calculateZoneFlows(zoneDemands, boilerState),
             boilerState, anyZoneCalling)

\* step 4 of the tick: the boiler's state, from the total demand
TickBoiler(comps, boiler, czm, zoneDemands, totalDemand, anyZoneCalling) ==
  TickFlows(comps, boiler, czm, zoneDemands,
            calculateBoilerState(comps[boiler], totalDemand, anyZoneCalling),
            anyZoneCalling)

\* step 3 of the tick: the total demand and whether any zone calls
TickDemands(comps, boiler, czm, zoneDemands) ==
  TickBoiler(comps, boiler, czm, zoneDemands, SumCurrentHeatLoss(zoneDemands, FALSE),
             \E i \in 1..Len(zoneDemands) : zoneDemands[i].isCalling)

runSimulationTick(b, zs, comps, conns, outdoor) ==
  IF BoilerEntry(comps) = 0 THEN [id \in {comps[i].id : i \in 1..Len(comps)} |-> offState]
  ELSE TickDemands(comps, BoilerEntry(comps), buildComponentZoneMap(comps, conns, zs),
                   calculateZoneDemands(b, zs, comps, conns, outdoor))


(***************************************************************************)
(* calc/autoLayout: orthogonal routing                                     *)
(***************************************************************************)
Pos(x, y) == [x |-> x, y |-> y]

\* const snap = (v) => Math.round(v / gridSize) * gridSize
snap(v, gridSize) == Mul(MathRound(Div(v, gridSize)), gridSize)

\* supply pipe: out along the dominant axis to the snapped midpoint, across, in
SupplyPath(from, to, gridSize) ==
  LET dx == Sub(to.x, from.x)
      dy == Sub(to.y, from.y)
      midX == snap(Add(from.x, Div(dx, I(2))), gridSize)
      midY == snap(Add(from.y, Div(dy, I(2))), gridSize)
  IN  IF Ge(MathAbs(dx), MathAbs(dy))
      THEN <<Pos(from.x, from.y), Pos(midX, from.y), Pos(midX, to.y), Pos(to.x, to.y)>>
      ELSE <<Pos(from.x, from.y), Pos(from.x, midY), Pos(to.x, midY), Pos(to.x, to.y)>>

\* mutant: the corner below the target port is forgotten
ReturnPath_NoSecondCorner(from, to, gridSize) ==
  LET headerY == snap(Add(MathMax(from.y, to.y), I(60)), gridSize)
  IN  <<Pos(from.x, from.y), Pos(from.x, headerY), Pos(to.x, to.y)>>

\* return pipe: down to the return header, across, up to the target
ReturnPath(from, to, gridSize) ==
  LET headerY == snap(Add(MathMax(from.y, to.y), I(60)), gridSize)
  IN  <<Pos(from.x, from.y), Pos(from.x, headerY), Pos(to.x, headerY), Pos(to.x, to.y)>>

generateSmartOrthogonalPath(from, to, pipeType, gridSize) ==
  IF pipeType = "supply" THEN SupplyPath(from, to, gridSize)
  ELSE ReturnPath(from, to, gridSize)

(***************************************************************************)
(* calc/autoLayout: placement and zone boxes                               *)
(***************************************************************************)
\* props?.lengthFt ?? 4
LengthFt(component) ==
  IF "lengthFt" \in DOMAIN component.props /\ component.props.lengthFt # null
  THEN component.props.lengthFt
  ELSE I(4)

Dim(w, h) == [width |-> I(w), height |-> I(h)]

getComponentDimensions(component) ==
  LET dims == [t \in {"boiler_gas", "boiler_oil", "boiler_electric", "radiant_floor",
                      "panel_radiator"} |->
                 IF t = "radiant_floor" THEN Dim(80, 70) ELSE Dim(80, 60)]
              @@ [t \in {"pump_fixed", "pump_variable", "zone_pump", "air_separator",
                         "zone_valve_2way", "zone_valve_3way", "mixing_valve"} |-> Dim(60, 60)]
              @@ [t \in {"expansion_tank"} |-> Dim(60, 70)]
  IN  IF component.type = "baseboard"
      THEN [width |-> MathMin(I(200), MathMax(I(60), Mul(LengthFt(component), I(15)))),
            height |-> I(60)]
      ELSE IF component.type \in DOMAIN dims THEN dims[component.type]
      ELSE Dim(60, 60)

ZONE_COLORS ==
  <<"rgba(66, 133, 244, 0.15)", "rgba(52, 168, 83, 0.15)", "rgba(251, 188, 4, 0.15)",
    "rgba(234, 67, 53, 0.15)", "rgba(154, 66, 244, 0.15)", "rgba(244, 66, 179, 0.15)">>

\* the components grouped under a zone id that have a position, in component order
\* (the code walks them in the map's insertion order; min and max do not depend on it)
ZoneMembers(components, positions, componentZoneMap, zoneId) ==
  LET member(c) == /\ c.id \in DOMAIN componentZoneMap
                   /\ componentZoneMap[c.id] = zoneId
  IN  SelectSeq(components, member)

\* minX, minY, maxX, maxY over the members that have a position
RECURSIVE Extent(_, _)
Extent(members, positions) ==
  IF members = <<>> THEN [minX |-> PInf, minY |-> PInf, maxX |-> NInf, maxY |-> NInf]
  ELSE LET n == Len(members)
           rest == Extent(SubSeq(members, 1, n - 1), positions)
           comp == members[n]
       IN  IF comp.id \notin DOMAIN positions THEN rest
           ELSE [minX |-> MathMin(rest.minX, positions[comp.id].x),
                 minY |-> MathMin(rest.minY, positions[comp.id].y),
                 maxX |-> MathMax(rest.maxX,
                                  Add(positions[comp.id].x, getComponentDimensions(comp).width)),
                 maxY |-> MathMax(rest.maxY,
                                  Add(positions[comp.id].y, getComponentDimensions(comp).height))]

\* the padded box of an extent
BoundsOf(zoneId, zoneName, e, padding, color) ==
  [zoneId |-> zoneId, zoneName |-> zoneName,
   x |-> Sub(e.minX, padding), y |-> Sub(e.minY, padding),
   width |-> Add(Sub(e.maxX, e.minX), Mul(padding, I(2))),
   height |-> Add(Sub(e.maxY, e.minY), Mul(padding, I(2))),
   color |-> color]

\* mutant: the color index jumps to the array index of the zone that follows
NextColorIndex_ByDeclaration(colorIndex, i) == i

\* colorIndex++ after a box is pushed
NextColorIndex(colorIndex, i) == colorIndex + 1

\* the loop over the zones from index i on, colorIndex boxes pushed so far
RECURSIVE ZoneBoxes(_, _, _, _, _, _, _)
ZoneBoxes(i, colorIndex, components, positions, componentZoneMap, zones, padding) ==
  IF i > Len(zones) THEN <<>>
  ELSE LET members == ZoneMembers(components, positions, componentZoneMap, zones[i].id)
       IN  IF members = <<>> \/ Extent(members, positions).minX = PInf
           THEN ZoneBoxes(i + 1, colorIndex, components, positions, componentZoneMap,
                          zones, padding)
           ELSE <<BoundsOf(zones[i].id, zones[i].name, Extent(members, positions), padding,
                           ZONE_COLORS[(colorIndex % Len(ZONE_COLORS)) + 1])>>
                \o ZoneBoxes(i + 1, NextColorIndex(colorIndex, i), components, positions,
                             componentZoneMap, zones, padding)

MechanicalBox(components, positions, componentZoneMap, padding) ==
  LET members == ZoneMembers(components, positions, componentZoneMap, mechanical)
  IN  IF members = <<>> \/ Extent(members, positions).minX = PInf THEN <<>>
      ELSE <<BoundsOf(mechanical, <<"M", "e", "c", "h", "a", "n", "i", "c", "a", "l", " ",
                                    "R", "o", "o", "m">>,
                      Extent(members, positions), padding, "rgba(100, 100, 100, 0.12)")>>

calculateZoneBounds(components, positions, componentZoneMap, zones, padding) ==
  ZoneBoxes(1, 0, components, positions, componentZoneMap, zones, padding)
    \o MechanicalBox(components, positions, componentZoneMap, padding)

\* the position of one component out of dagre's layout: dagre gives the centre of
\* the node, the code converts it to the snapped top-left corner
PlaceOf(comp, lockedIds, gridSize, dagre) ==
  IF comp.id \in lockedIds THEN comp.position
  ELSE IF comp.id \in DOMAIN dagre
  THEN Pos(snap(Sub(dagre[comp.id].x, Div(getComponentDimensions(comp).width, I(2))),
                gridSize),
           snap(Sub(dagre[comp.id].y, Div(getComponentDimensions(comp).height, I(2))),
                gridSize))
  ELSE comp.position

\* mutant: a locked component is laid out like every other
componentPositions_IgnoreLock(components, lockedIds, gridSize, dagre) ==
  [id \in {components[i].id : i \in 1..Len(components)} |->
     PlaceOf(components[CHOOSE i \in 1..Len(components) : components[i].id = id],
             {}, gridSize, dagre)]

\* the componentPositions map of autoLayoutSystem
componentPositions(components, lockedIds, gridSize, dagre) ==
  [id \in {components[i].id : i \in 1..Len(components)} |->
     PlaceOf(components[CHOOSE i \in 1..Len(components) : components[i].id = id],
             lockedIds, gridSize, dagre)]

LayoutResult(components, zones, componentZoneMap, positions, zonePadding) ==
  [componentPositions |-> positions,
   zoneBounds |-> calculateZoneBounds(components, positions, componentZoneMap, zones,
                                      zonePadding)]

\* dagre is the layout of the external library: the centre it gives to each node.
\* options holds gridSize, zonePadding and lockedComponentIds.
autoLayoutSystem(components, pipes, connections, zones, options, dagre) ==
  LayoutResult(components, zones, buildComponentZoneMap(components, connections, zones),
               componentPositions(components, options.lockedComponentIds,
                                  options.gridSize, dagre),
               options.zonePadding)

(***************************************************************************)
(* Port positions                                                          *)
(***************************************************************************)
getPortOffset(component, portId) ==
  LET boiler == [p \in {"supply", "return"} |->
                   IF p = "supply" THEN Pos(I(15), I(0)) ELSE Pos(I(65), I(0))]
      inout == [p \in {"inlet", "outlet"} |->
                  IF p = "inlet" THEN Pos(I(0), I(30)) ELSE Pos(I(60), I(30))]
      portOffsets ==
        [t \in {"boiler_gas", "boiler_oil", "boiler_electric"} |-> boiler]
        @@ [t \in {"pump_fixed", "pump_variable", "zone_pump", "zone_valve_2way",
                   "zone_valve_3way"} |-> inout]
        @@ [t \in {"air_separator"} |->
              [p \in {"left", "right"} |->
                 IF p = "left" THEN Pos(I(0), I(30)) ELSE Pos(I(60), I(30))]]
        @@ [t \in {"expansion_tank"} |-> [p \in {"connection"} |-> Pos(I(30), I(60))]]
        @@ [t \in {"radiant_floor"} |->
              [p \in {"supply", "return"} |->
                 IF p = "supply" THEN Pos(I(10), I(0)) ELSE Pos(I(70), I(60))]]
  IN  IF component.type = "baseboard" /\ portId = "supply" THEN Pos(I(0), I(30))
      ELSE IF component.type = "baseboard" /\ portId = "return"
      THEN Pos(MathMin(I(200), MathMax(I(60), Mul(LengthFt(component), I(15)))), I(30))
      ELSE IF component.type \in DOMAIN portOffsets
              /\ portId \in DOMAIN portOffsets[component.type]
      THEN portOffsets[component.type][portId]
      ELSE IF portId \in {"supply", "left", "inlet"} THEN Pos(I(0), I(30))
      ELSE Pos(I(60), I(30))

\* Math.cos and Math.sin of a rotation that is a multiple of 90 degrees, taken as
\* the exact values (the rounding residue of the floating-point value is left out)
Cos(rotation) == I(<<1, 0, -1, 0>>[((rotation \div 90) % 4) + 1])
Sin(rotation) == I(<<0, 1, 0, -1>>[((rotation \div 90) % 4) + 1])

\* the port offset flipped, then rotated
RotatedOffset(component, cx, cy) ==
  Pos(Sub(Mul(cx, Cos(component.rotation)), Mul(cy, Sin(component.rotation))),
      Add(Mul(cx, Sin(component.rotation)), Mul(cy, Cos(component.rotation))))

FlippedOffset(component, offset) ==
  RotatedOffset(component,
                IF component.flippedH THEN Sub(I(0), offset.x) ELSE offset.x,
                IF component.flippedV THEN Sub(I(0), offset.y) ELSE offset.y)

\* the store's helper
getAbsolutePortPosition(component, portId) ==
  Pos(Add(component.position.x, FlippedOffset(component, getPortOffset(component, portId)).x),
      Add(component.position.y, FlippedOffset(component, getPortOffset(component, portId)).y))

\* the layout's helper, which takes the position the component is about to get
getAbsolutePortPositionAt(component, portId, position) ==
  Pos(Add(position.x, FlippedOffset(component, getPortOffset(component, portId)).x),
      Add(position.y, FlippedOffset(component, getPortOffset(component, portId)).y))

(***************************************************************************)
(* store: routing of a pipe between two points                             *)
(***************************************************************************)
\* mutant: the second corner is left on the first point's row
generateOrthogonalPath_Diagonal(from, to) ==
  <<Pos(from.x, from.y),
    Pos(Add(from.x, Div(Sub(to.x, from.x), I(2))), from.y),
    Pos(to.x, to.y)>>

generateOrthogonalPath(from, to) ==
  LET dx == Sub(to.x, from.x)
      dy == Sub(to.y, from.y)
      midX == Add(from.x, Div(dx, I(2)))
      midY == Add(from.y, Div(dy, I(2)))
  IN  IF Ge(MathAbs(dx), MathAbs(dy))
      THEN <<Pos(from.x, from.y), Pos(midX, from.y), Pos(midX, to.y), Pos(to.x, to.y)>>
      ELSE <<Pos(from.x, from.y), Pos(from.x, midY), Pos(to.x, midY), Pos(to.x, to.y)>>

(***************************************************************************)
(* calc/autoLayout: re-routing of every pipe after a layout                *)
(***************************************************************************)
HasComponent(components, id) == \E i \in 1..Len(components) : components[i].id = id
ComponentOf(components, id) ==
  components[CHOOSE i \in 1..Len(components) : components[i].id = id]

\* the connections (by index) a re-routing loop writes the pipe pipeId for
RoutedBy(components, pipes, connections, pipeId) ==
  {i \in 1..Len(connections) :
     /\ connections[i].pipeId = pipeId
     /\ pipeId \in DOMAIN pipes
     /\ HasComponent(components, connections[i].fromComponentId)
     /\ HasComponent(components, connections[i].toComponentId)}

\* the loop runs over the connections in order: the last one writes last
LastOf(S) == CHOOSE i \in S : \A j \in S : j <= i

PositionIn(newPositions, component) ==
  IF component.id \in DOMAIN newPositions THEN newPositions[component.id]
  ELSE component.position

SmartPathOf(conn, fromComp, toComp, pipe, newPositions, gridSize) ==
  generateSmartOrthogonalPath(
    getAbsolutePortPositionAt(fromComp, conn.fromPortId, PositionIn(newPositions, fromComp)),
    getAbsolutePortPositionAt(toComp, conn.toPortId, PositionIn(newPositions, toComp)),
    pipe.pipeType, gridSize)

recalculatePipeWaypoints(components, pipes, connections, newPositions, gridSize) ==
  [pipeId \in {q \in DOMAIN pipes : RoutedBy(components, pipes, connections, q) # {}} |->
     SmartPathOf(connections[LastOf(RoutedBy(components, pipes, connections, pipeId))],
                 ComponentOf(components,
                   connections[LastOf(RoutedBy(components, pipes, connections, pipeId))]
                     .fromComponentId),
                 ComponentOf(components,
                   connections[LastOf(RoutedBy(components, pipes, connections, pipeId))]
                     .toComponentId),
                 pipes[pipeId], newPositions, gridSize)]

(***************************************************************************)
(* store: the handlers, as functions of the store state s                  *)
(***************************************************************************)
MAX_HISTORY_SIZE == 50

\* uuid(): the n-th identifier generated; every call gives a fresh one
uuid(n) == <<"u1", "u2", "u3", "u4", "u5", "u6", "u7", "u8", "u9", "u10", "u11", "u12",
             "u13", "u14", "u15", "u16">>[n]

\* JSON.parse(JSON.stringify(v)) of a number: NaN and the infinities are written
\* as null, every other number comes back as it was
jsonNumber(a) == IF a.k \in {"nan", "pinf", "ninf"} THEN null ELSE a
jsonPosition(p) == [x |-> jsonNumber(p.x), y |-> jsonNumber(p.y)]
\* the clone of the components and of the pipes: their numbers are the coordinates
\* (strings, booleans, lists and the order of the keys come back as they were)
jsonComponents(components) ==
  [i \in 1..Len(components) |->
     [components[i] EXCEPT !.position = jsonPosition(components[i].position)]]
jsonPipes(pipes) ==
  [id \in DOMAIN pipes |->
     [pipes[id] EXCEPT !.waypoints = [k \in 1..Len(pipes[id].waypoints) |->
                                        jsonPosition(pipes[id].waypoints[k])]]]

\* mutant: a snapshot without the pipes
HistorySnapshot_NoPipes(s) ==
  [zones |-> s.zones, components |-> jsonComponents(s.components), pipes |-> <<>>,
   connections |-> s.connections]

HistorySnapshot(s) ==
  [zones |-> s.zones, components |-> jsonComponents(s.components),
   pipes |-> jsonPipes(s.pipes), connections |-> s.connections]

Restore(s, snapshot) ==
  [s EXCEPT !.zones = snapshot.zones,
            !.components = jsonComponents(snapshot.components),
            !.pipes = jsonPipes(snapshot.pipes),
            !.connections = snapshot.connections]

\* slice(-MAX_HISTORY_SIZE)
LastEntries(history) ==
  IF Len(history) > MAX_HISTORY_SIZE
  THEN SubSeq(history, Len(history) - MAX_HISTORY_SIZE + 1, Len(history))
  ELSE history

pushHistory(s) ==
  [s EXCEPT
     !._history = LastEntries(Append(IF s._historyIndex < Len(s._history) - 1
                                     THEN SubSeq(s._history, 1, s._historyIndex + 1)
                                     ELSE s._history,
                                     HistorySnapshot(s))),
     !._historyIndex = Len(LastEntries(Append(IF s._historyIndex < Len(s._history) - 1
                                              THEN SubSeq(s._history, 1, s._historyIndex + 1)
                                              ELSE s._history,
                                              HistorySnapshot(s)))) - 1]

undo(s) ==
  IF s._historyIndex >= 0
  THEN [Restore(s, s._history[s._historyIndex + 1]) EXCEPT
          !._history = IF s._historyIndex = Len(s._history) - 1
                       THEN Append(s._history, HistorySnapshot(s))
                       ELSE s._history,
          !._historyIndex = s._historyIndex - 1]
  ELSE s

redo(s) ==
  IF s._historyIndex < Len(s._history) - 1
  THEN IF s._historyIndex + 3 \in 1..Len(s._history)
       THEN [Restore(s, s._history[s._historyIndex + 3]) EXCEPT
               !._historyIndex = s._historyIndex + 1]
       ELSE [s EXCEPT !._historyIndex = s._historyIndex + 1]
  ELSE s

\* mutant: the pipes of the removed connections are kept
removeComponent_KeepPipes(s, id) ==
  [pushHistory(s) EXCEPT
     !.components = SelectSeq(s.components, LAMBDA c : c.id # id),
     !.connections = SelectSeq(s.connections,
                       LAMBDA c : c.fromComponentId # id /\ c.toComponentId # id)]

removeComponent(s, id) ==
  [pushHistory(s) EXCEPT
     !.components = SelectSeq(s.components, LAMBDA c : c.id # id),
     !.pipes = [pipeId \in DOMAIN s.pipes \
                  {s.connections[i].pipeId :
                     i \in {j \in 1..Len(s.connections) :
                              \/ s.connections[j].fromComponentId = id
                              \/ s.connections[j].toComponentId = id}}
                  |-> s.pipes[pipeId]],
     !.connections = SelectSeq(s.connections,
                       LAMBDA c : c.fromComponentId # id /\ c.toComponentId # id)]

\* the loop "update all connected pipes" of moveComponent, rotateComponent and
\* flipComponent: the connections that touch id, whose pipe and components exist
Touching(components, pipes, connections, id, pipeId) ==
  {i \in RoutedBy(components, pipes, connections, pipeId) :
     connections[i].fromComponentId = id \/ connections[i].toComponentId = id}

PathOf(components, conn) ==
  generateOrthogonalPath(
    getAbsolutePortPosition(ComponentOf(components, conn.fromComponentId), conn.fromPortId),
    getAbsolutePortPosition(ComponentOf(components, conn.toComponentId), conn.toPortId))

Reroute(components, pipes, connections, id) ==
  [pipeId \in DOMAIN pipes |->
     IF Touching(components, pipes, connections, id, pipeId) = {} THEN pipes[pipeId]
     ELSE [pipes[pipeId] EXCEPT
             !.waypoints =
                PathOf(components,
                       connections[LastOf(Touching(components, pipes, connections, id,
                                                   pipeId))])]]

\* the components with the one of the given id replaced
WithComponent(components, component) ==
  [i \in 1..Len(components) |->
     IF components[i].id = component.id THEN component ELSE components[i]]

\* the store after the component id has become the given one
Updated(s, components, id) ==
  [s EXCEPT !.components = components,
            !.pipes = Reroute(components, s.pipes, s.connections, id)]

moveComponent(s, id, position) ==
  IF HasComponent(s.components, id)
  THEN Updated(s,
         WithComponent(s.components,
           [ComponentOf(s.components, id) EXCEPT
              !.position =
                 Pos(snap(position.x, IF s.ui.snapToGrid THEN s.ui.gridSize ELSE I(1)),
                     snap(position.y, IF s.ui.snapToGrid THEN s.ui.gridSize ELSE I(1)))]),
         id)
  ELSE s

rotateComponent(s, id, degrees) ==
  IF HasComponent(s.components, id)
  THEN Updated(s,
         WithComponent(s.components,
           [ComponentOf(s.components, id) EXCEPT
              !.rotation = (ComponentOf(s.components, id).rotation + degrees) % 360]),
         id)
  ELSE s

flipComponent(s, id, direction) ==
  IF HasComponent(s.components, id)
  THEN Updated(s,
         WithComponent(s.components,
           IF direction = "h"
           THEN [ComponentOf(s.components, id) EXCEPT !.flippedH = ~@]
           ELSE [ComponentOf(s.components, id) EXCEPT !.flippedV = ~@]),
         id)
  ELSE s

startPipeConnection(s, componentId, portId, position) ==
  [s EXCEPT !.ui.pendingConnection =
     [fromComponentId |-> componentId, fromPortId |-> portId,
      fromPosition |-> position, currentMousePosition |-> position]]

cancelPipeConnection(s) == [s EXCEPT !.ui.pendingConnection = null]

\* fromPort?.type === 'supply' ? 'supply' : 'return'
PipeTypeOf(components, componentId, portId) ==
  IF /\ HasComponent(components, componentId)
     /\ \E k \in 1..Len(ComponentOf(components, componentId).ports) :
          /\ ComponentOf(components, componentId).ports[k].id = portId
          /\ ComponentOf(components, componentId).ports[k].type = "supply"
          /\ \A h \in 1..(k - 1) : ComponentOf(components, componentId).ports[h].id # portId
  THEN "supply"
  ELSE "return"

NewPipe(pipeId, pipeType, waypoints, pending, toComponentId, toPortId) ==
  [id |-> pipeId, pipeType |-> pipeType,
   fittings |-> [elbows90 |-> Len(waypoints) - 2],
   waypoints |-> waypoints,
   startPortId |-> <<pending.fromComponentId, pending.fromPortId>>,
   endPortId |-> <<toComponentId, toPortId>>]

\* mutant: the pending connection stays
Connected_KeepPending(s, pending, pipe, connectionId, toComponentId, toPortId) ==
  [s EXCEPT
     !.pipes = (pipe.id :> pipe) @@ s.pipes,
     !.connections = Append(s.connections,
        [id |-> connectionId, pipeId |-> pipe.id,
         fromComponentId |-> pending.fromComponentId, fromPortId |-> pending.fromPortId,
         toComponentId |-> toComponentId, toPortId |-> toPortId]),
     !.uuids = s.uuids + 2]

\* the store with the new pipe and its connection
Connected(s, pending, pipe, connectionId, toComponentId, toPortId) ==
  [s EXCEPT
     !.pipes = (pipe.id :> pipe) @@ s.pipes,
     !.connections = Append(s.connections,
        [id |-> connectionId, pipeId |-> pipe.id,
         fromComponentId |-> pending.fromComponentId, fromPortId |-> pending.fromPortId,
         toComponentId |-> toComponentId, toPortId |-> toPortId]),
     !.ui.pendingConnection = null,
     !.uuids = s.uuids + 2]

\* mutant: a port that is an end of a connection already is refused
completePipeConnection_RefuseUsedPort(s, toComponentId, toPortId, toPosition) ==
  IF s.ui.pendingConnection = null THEN s
  ELSE IF \/ /\ s.ui.pendingConnection.fromComponentId = toComponentId
             /\ s.ui.pendingConnection.fromPortId = toPortId
          \/ \E i \in 1..Len(s.connections) :
               {<<s.connections[i].fromComponentId, s.connections[i].fromPortId>>,
                <<s.connections[i].toComponentId, s.connections[i].toPortId>>}
               \cap {<<s.ui.pendingConnection.fromComponentId,
                       s.ui.pendingConnection.fromPortId>>,
                     <<toComponentId, toPortId>>} # {}
  THEN [s EXCEPT !.ui.pendingConnection = null]
  ELSE Connected(s, s.ui.pendingConnection,
         NewPipe(uuid(s.uuids + 1),
                 PipeTypeOf(s.components, s.ui.pendingConnection.fromComponentId,
                            s.ui.pendingConnection.fromPortId),
                 generateOrthogonalPath(s.ui.pendingConnection.fromPosition, toPosition),
                 s.ui.pendingConnection, toComponentId, toPortId),
         uuid(s.uuids + 2), toComponentId, toPortId)

\* mutant: the port the connection is pending at is connected like any other
completePipeConnection_AllowSamePort(s, toComponentId, toPortId, toPosition) ==
  IF s.ui.pendingConnection = null THEN s
  ELSE Connected(s, s.ui.pendingConnection,
         NewPipe(uuid(s.uuids + 1),
                 PipeTypeOf(s.components, s.ui.pendingConnection.fromComponentId,
                            s.ui.pendingConnection.fromPortId),
                 generateOrthogonalPath(s.ui.pendingConnection.fromPosition, toPosition),
                 s.ui.pendingConnection, toComponentId, toPortId),
         uuid(s.uuids + 2), toComponentId, toPortId)

completePipeConnection(s, toComponentId, toPortId, toPosition) ==
  IF s.ui.pendingConnection = null THEN s
  ELSE IF /\ s.ui.pendingConnection.fromComponentId = toComponentId
          /\ s.ui.pendingConnection.fromPortId = toPortId
  THEN [s EXCEPT !.ui.pendingConnection = null]
  ELSE Connected(s, s.ui.pendingConnection,
         NewPipe(uuid(s.uuids + 1),
                 PipeTypeOf(s.components, s.ui.pendingConnection.fromComponentId,
                            s.ui.pendingConnection.fromPortId),
                 generateOrthogonalPath(s.ui.pendingConnection.fromPosition, toPosition),
                 s.ui.pendingConnection, toComponentId, toPortId),
         uuid(s.uuids + 2), toComponentId, toPortId)

\* the set((s) => ...) at the end of runAutoLayout
Laid(s, result, newWaypoints) ==
  [s EXCEPT
     !.components = [i \in 1..Len(s.components) |->
                       IF s.components[i].id \in DOMAIN result.componentPositions
                       THEN [s.components[i] EXCEPT
                               !.position = result.componentPositions[s.components[i].id]]
                       ELSE s.components[i]],
     !.pipes = [pipeId \in DOMAIN s.pipes |->
                  IF pipeId \in DOMAIN newWaypoints
                  THEN [s.pipes[pipeId] EXCEPT !.waypoints = newWaypoints[pipeId]]
                  ELSE s.pipes[pipeId]],
     !.ui.zoneBounds = result.zoneBounds,
     !.ui.showZoneBounds = TRUE]

Rerouted(s, result) ==
  Laid(s, result,
       recalculatePipeWaypoints(s.components, s.pipes, s.connections,
                                result.componentPositions, s.ui.gridSize))

\* dagre: the centres the external layout library gives to the nodes
runAutoLayout(s, lockedIds, dagre) ==
  Rerouted(pushHistory(s),
           autoLayoutSystem(s.components, s.pipes, s.connections, s.zones,
                            [gridSize |-> s.ui.gridSize, zonePadding |-> I(40),
                             lockedComponentIds |-> lockedIds],
                            dagre))

(***************************************************************************)
(* The inputs the model draws from                                         *)
(***************************************************************************)
MaxComponents == 3
MaxZones == 2

\* the elements of list at the indexes of S, in the order of list
RECURSIVE Pick(_, _)
Pick(list, S) ==
  IF list = <<>> THEN <<>>
  ELSE LET n == Len(list)
           front == Pick(SubSeq(list, 1, n - 1), S)
       IN  IF n \in S THEN Append(front, list[n]) ELSE front

\* the sub-lists of list of at most max elements
SubLists(list, max) ==
  {Pick(list, S) : S \in {T \in SUBSET (1..Len(list)) : Cardinality(T) <= max}}

BaseBuilding ==
  [climate |-> [indoorDesignTemp |-> I(70), designOutdoorTemp |-> I(0)],
   totalSqFt |-> I(400), floors |-> I(1), ceilingHeight |-> I(8),
   foundationType |-> "slab",
   insulation |-> [walls |-> I(2), ceiling |-> I(4), floor |-> I(0)],
   windowDoor |-> [totalWindowArea |-> I(20), windowUValue |-> Q(1, 2),
                   exteriorDoorCount |-> I(1), doorUValue |-> Q(1, 2), doorArea |-> I(20)],
   infiltration |-> [ach |-> Q(1, 2)]]

Buildings ==
  {BaseBuilding,
   [BaseBuilding EXCEPT !.totalSqFt = I(0)],
   [BaseBuilding EXCEPT !.floors = I(0)],
   [BaseBuilding EXCEPT !.climate.designOutdoorTemp = I(70), !.foundationType = "basement"]}

OutdoorTemps == {I(0), I(35), I(70), I(75)}

ZoneCatalog ==
  <<[id |-> <<"z", "1">>, name |-> <<"F", "l", "o", "o", "r", " ", "1">>, sqFt |-> I(200), heatLossOverride |-> null,
     designWaterTemp |-> I(110), emitterType |-> "radiant_floor"],
    [id |-> <<"z", "2">>, name |-> <<"F", "l", "o", "o", "r", " ", "2">>, sqFt |-> I(100), heatLossOverride |-> null,
     designWaterTemp |-> I(160), emitterType |-> "baseboard"],
    [id |-> <<"z", "3">>, name |-> <<"A", "t", "t", "i", "c">>, sqFt |-> I(100), heatLossOverride |-> I(-50000),
     designWaterTemp |-> I(160), emitterType |-> "null"],
    [id |-> <<"z", "4">>, name |-> <<"G", "a", "r", "a", "g", "e">>, sqFt |-> I(100), heatLossOverride |-> null,
     designWaterTemp |-> I(140), emitterType |-> "radiant_floor"]>>

\* the properties of a component that is no gas boiler: every field read is undefined
noProps == [inputBtu |-> NaN, afue |-> NaN, minFiringRate |-> NaN, maxSupplyTemp |-> NaN]

ComponentCatalog ==
  <<[id |-> "b1", type |-> "boiler_gas", name |-> <<"B", "o", "i", "l", "e", "r">>,
     props |-> [inputBtu |-> I(100000), afue |-> Q(19, 20), minFiringRate |-> Q(1, 5),
                maxSupplyTemp |-> I(180)]],
    [id |-> "b2", type |-> "boiler_electric", name |-> <<"E", "-", "B", "o", "i", "l", "e", "r">>, props |-> noProps],
    [id |-> "p1", type |-> "pump_variable", name |-> <<"P", "u", "m", "p">>, props |-> noProps],
    [id |-> "zp", type |-> "zone_pump", name |-> <<"2", "F", " ", "p", "u", "m", "p">>, props |-> noProps],
    [id |-> "v1", type |-> "zone_valve_2way", name |-> <<"V", "a", "l", "v", "e">>, props |-> noProps],
    [id |-> "e1", type |-> "baseboard", name |-> <<"2", "F", " ", "r", "a", "d">>, props |-> noProps],
    [id |-> "r1", type |-> "radiant_floor", name |-> <<"G", "a", "r", "a", "g", "e", " ", "l", "o", "o", "p">>, props |-> noProps],
    [id |-> "x1", type |-> "expansion_tank", name |-> <<"T", "a", "n", "k">>, props |-> noProps],
    [id |-> "v2", type |-> "zone_valve_3way", name |-> <<"M", "i", "x">>, props |-> noProps]>>

ConnectionLists ==
  {<<>>,
   <<[fromComponentId |-> "b1", toComponentId |-> "p1"],
     [fromComponentId |-> "p1", toComponentId |-> "v1"],
     [fromComponentId |-> "v1", toComponentId |-> "e1"],
     [fromComponentId |-> "v1", toComponentId |-> "r1"],
     [fromComponentId |-> "e1", toComponentId |-> "v2"]>>}

(***************************************************************************)
(* The simulation tick, applied to the drawn inputs                        *)
(***************************************************************************)
InitSim ==
  /\ pc = "call"
  /\ call \in [fn : {"runSimulationTick"}, building : Buildings,
               zones : SubLists(ZoneCatalog, MaxZones),
               components : SubLists(ComponentCatalog, MaxComponents),
               connections : ConnectionLists, outdoorTemp : OutdoorTemps]
  /\ ret = <<>>
  /\ store = <<>>
  /\ steps = 0

RunSimulationTick ==
  /\ pc = "call"
  /\ call.fn = "runSimulationTick"
  /\ ret' = runSimulationTick(call.building, call.zones, call.components,
                              call.connections, call.outdoorTemp)
  /\ pc' = "done"
  /\ UNCHANGED <<call, store, steps>>

NextSim == RunSimulationTick

SpecSim == InitSim /\ [][NextSim]_vars

(***************************************************************************)
(* Properties of the simulation tick                                       *)
(***************************************************************************)
SimDone == pc = "done" /\ call.fn = "runSimulationTick"
SimIds == {call.components[i].id : i \in 1..Len(call.components)}
SimIdsOfType(types) ==
  {call.components[i].id : i \in {j \in 1..Len(call.components) : call.components[j].type \in types}}
SimBoilerTypes == {"boiler_gas", "boiler_oil", "boiler_electric"}
SimPumpTypes == {"pump_fixed", "pump_variable", "zone_pump"}
SimValveTypes == {"zone_valve_2way", "zone_valve_3way"}
SimHasBoiler == SimIdsOfType(SimBoilerTypes) # {}
\* the id of the boiler the tick takes: the first one
SimBoilerId ==
  call.components[CHOOSE i \in 1..Len(call.components) :
     /\ call.components[i].type \in SimBoilerTypes
     /\ \A j \in 1..(i - 1) : call.components[j].type \notin SimBoilerTypes].id
SimDemands ==
  calculateZoneDemands(call.building, call.zones, call.components, call.connections,
                       call.outdoorTemp)
SimAnyZoneCalling == \E i \in 1..Len(SimDemands) : SimDemands[i].isCalling
SimZoneMap == buildComponentZoneMap(call.components, call.connections, call.zones)
\* the zone the component is classified into is one of the zones and is calling
SimZoneOfIsCalling(id) ==
  \E i \in 1..Len(call.zones) :
     call.zones[i].id = SimZoneMap[id] /\ SimDemands[i].isCalling

\* C1: with no boiler in the component map, runSimulationTick returns the default
\* off-state {70, 70, 0, 'off'} for every component id of the map, whatever the
\* zones, connections and outdoor temperature are.
C1_NoBoilerAllOff ==
  (SimDone /\ ~SimHasBoiler) =>
     /\ DOMAIN ret = SimIds
     /\ \A id \in SimIds :
          ret[id] = [supplyTemp |-> I(70), returnTemp |-> I(70), flowGpm |-> I(0),
                     status |-> "off"]

\* a tick without boiler over pumps, valves or emitters while a zone calls for heat
C1_Witness ==
  /\ SimDone /\ ~SimHasBoiler
  /\ SimIdsOfType(SimPumpTypes) # {}
  /\ SimIdsOfType(SimValveTypes \cup {"baseboard", "radiant_floor"}) # {}
  /\ SimAnyZoneCalling

\* C2: at outdoorTemp >= indoorDesignTemp the boiler and every pump are 'off'.
C2_WarmAllOff ==
  (SimDone /\ Ge(call.outdoorTemp, call.building.climate.indoorDesignTemp)) =>
     \A id \in SimIdsOfType(SimBoilerTypes \cup SimPumpTypes) : ret[id].status = "off"

\* a warm tick over a boiler, a pump and a zone
C2_Witness ==
  /\ SimDone /\ Ge(call.outdoorTemp, call.building.climate.indoorDesignTemp)
  /\ SimHasBoiler /\ SimIdsOfType(SimPumpTypes) # {} /\ Len(call.zones) > 0
  /\ \A id \in SimIdsOfType(SimBoilerTypes \cup SimPumpTypes) : ret[id].status = "off"

\* C6: with a boiler present, a zone valve is 'running' iff the zone that
\* buildComponentZoneMap classifies it into is calling, and 'off' otherwise.
C6_ValveFollowsItsZone ==
  (SimDone /\ SimHasBoiler) =>
     \A id \in SimIdsOfType(SimValveTypes) :
        /\ ret[id].status \in {"running", "off"}
        /\ ret[id].status = "running" <=> SimZoneOfIsCalling(id)

\* a valve, classified through its neighbour into a zone that calls, is open
C6_Witness ==
  /\ SimDone /\ SimHasBoiler
  /\ \E id \in SimIdsOfType(SimValveTypes) :
        ret[id].status = "running" /\ SimZoneMap[id] # mechanical /\ SimZoneOfIsCalling(id)

\* C7, as claimed: with a boiler present, a pump is 'running' iff the boiler is 'firing'.
C7_PumpIffBoilerFiring ==
  (SimDone /\ SimHasBoiler) =>
     \A id \in SimIdsOfType(SimPumpTypes) :
        ret[id].status = "running" <=> ret[SimBoilerId].status = "firing"

\* C7, amended: with a boiler present, a pump is 'running' iff some zone is calling
\* and 'off' otherwise; whenever the boiler is 'firing', every pump is 'running'.
C7_PumpIffAnyZoneCalling ==
  (SimDone /\ SimHasBoiler) =>
     \A id \in SimIdsOfType(SimPumpTypes) :
        /\ ret[id].status \in {"running", "off"}
        /\ ret[id].status = "running" <=> SimAnyZoneCalling
        /\ ret[SimBoilerId].status = "firing" => ret[id].status = "running"

\* a pump that runs beside a boiler that is off: a zone calls, the total demand is <= 0
C7_Witness ==
  /\ SimDone /\ SimHasBoiler
  /\ \E id \in SimIdsOfType(SimPumpTypes) :
        ret[id].status = "running" /\ ret[SimBoilerId].status = "off"
  /\ SimAnyZoneCalling

\* every number of a heat-loss breakdown is finite
FiniteBreakdown(h) ==
  /\ isFinite(h.walls) /\ isFinite(h.windows) /\ isFinite(h.doors) /\ isFinite(h.ceiling)
  /\ isFinite(h.floor) /\ isFinite(h.infiltration) /\ isFinite(h.total)

\* C8: no formula of the heat-loss model or of the simulation engine returns NaN or
\* +-Infinity for degenerate numeric input: the wall area, the heat-loss breakdown,
\* the zone allocation and every number of the tick's result are finite.
C8_AllFinite ==
  SimDone =>
     /\ isFinite(estimateWallArea(call.building))
     /\ FiniteBreakdown(calculateHeatLoss(call.building))
     /\ \A i \in 1..Len(call.zones) :
          isFinite(allocateZoneHeatLoss(calculateHeatLoss(call.building).total,
                                        call.building.totalSqFt, call.zones)[call.zones[i].id])
     /\ \A id \in SimIds :
          isFinite(ret[id].supplyTemp) /\ isFinite(ret[id].returnTemp)
             /\ isFinite(ret[id].flowGpm)

(***************************************************************************)
(* calculateBoilerState, applied to one boiler under a changing demand     *)
(***************************************************************************)
MaxDemandSteps == 12
\* the demands: a negative one, zero, and steps up to and beyond the largest
\* maximum output of the boilers below (1000 * 0.95 = 950), and Infinity
Demands == {I(95 * k) : k \in -1..MaxDemandSteps} \cup {I(1), PInf}

BoilerComps ==
  {[id |-> "b1", type |-> "boiler_gas", name |-> <<"B">>,
    props |-> [inputBtu |-> I(i), afue |-> Q(19, 20), minFiringRate |-> m,
               maxSupplyTemp |-> I(t)]] :
     i \in {0, 1000, -1000}, m \in {I(0), Q(1, 5), I(1), Q(3, 2), Q(-1, 5)},
     t \in {180, 200}}

InitBoiler ==
  /\ pc = "call"
  /\ call \in [fn : {"calculateBoilerState"}, boilerComp : BoilerComps,
               totalDemandBtu : {I(0)}, anyZoneCalling : BOOLEAN]
  /\ ret = <<>>
  /\ store = <<>>
  /\ steps = 0

\* the same boiler is asked again, with any total demand
CalculateBoilerState ==
  /\ call.fn = "calculateBoilerState"
  /\ \E d \in Demands :
       /\ call' = [call EXCEPT !.totalDemandBtu = d]
       /\ ret' = calculateBoilerState(call.boilerComp, d, call.anyZoneCalling)
  /\ pc' = "done"
  /\ UNCHANGED <<store, steps>>

NextBoiler == CalculateBoilerState

SpecBoiler == InitBoiler /\ [][NextBoiler]_vars

BoilerDone == pc = "done" /\ call.fn = "calculateBoilerState"
MinFiringRateInRange ==
  /\ Ge(call.boilerComp.props.minFiringRate, I(0))
  /\ Le(call.boilerComp.props.minFiringRate, I(1))

\* a firing boiler's rate lies in [minFiringRate, 1]; zero demand, or no zone calling, is 'off'
C3_RateInRange ==
  (BoilerDone /\ MinFiringRateInRange) =>
     /\ ret.status = "firing" =>
          /\ Ge(ret.firingRate, call.boilerComp.props.minFiringRate)
          /\ Le(ret.firingRate, I(1))
     /\ (call.totalDemandBtu = I(0) \/ ~call.anyZoneCalling) =>
          ret.status = "off" /\ ret.firingRate = I(0)

\* from one call to the next of the same boiler, a demand that does not fall gives a
\* firing rate that does not fall
C3_RateMonotone ==
  (BoilerDone /\ BoilerDone' /\ MinFiringRateInRange
     /\ Le(call.totalDemandBtu, call'.totalDemandBtu)) =>
        Le(ret.firingRate, ret'.firingRate)

\* C3: for a boiler with minFiringRate in [0, 1], the firing rate is monotonically
\* non-decreasing in totalDemandBtu and, when the status is 'firing', lies in
\* [minFiringRate, 1]; with totalDemandBtu = 0 or no zone calling the status is 'off'.
C3_FiringRate == [](C3_RateInRange) /\ [][C3_RateMonotone]_vars

\* a boiler modulating strictly between its minimum and 100%
C3_Witness ==
  /\ BoilerDone /\ MinFiringRateInRange /\ ret.status = "firing"
  /\ Gt(ret.firingRate, call.boilerComp.props.minFiringRate)
  /\ Lt(ret.firingRate, I(1))

(***************************************************************************)
(* The pure functions of the engines, each applied to drawn arguments      *)
(***************************************************************************)
MaxEmitters == 4
MaxCoord == 3

\* the demands of a zone: calling or not, with or without loss, radiant or not
ZoneDemandsOf(zoneId) ==
  [zoneId : {zoneId}, zoneName : {<<"Z">>}, sqFt : {I(500)}, designHeatLoss : {I(10000)},
   currentHeatLoss : {I(0), I(1000), I(2000)}, isCalling : BOOLEAN,
   designWaterTemp : {I(130)}, emitterType : {"radiant_floor", "panel_radiator"}]

\* the lists of at most MaxZones demands, one zone id each
RECURSIVE DemandLists(_)
DemandLists(n) ==
  IF n = 0 THEN {<<>>}
  ELSE LET shorter == DemandLists(n - 1)
       IN  shorter \cup
           {Append(l, d) : l \in {x \in shorter : Len(x) = n - 1},
                           d \in ZoneDemandsOf(<<"z", CASE n = 1 -> "1" [] n = 2 -> "2"
                                                       [] n = 3 -> "3" [] OTHER -> "4">>)}

BoilerStates ==
  {BoilerOff} \cup
  {[firingRate |-> Q(1, 2), outputBtu |-> I(50000), supplyTemp |-> I(160),
    returnTemp |-> I(140), flowGpm |-> f, status |-> "firing"] : f \in {I(5), Q(1, 10)}}

ZoneFlowCalls ==
  [fn : {"calculateZoneFlows"}, zoneDemands : DemandLists(MaxZones),
   boilerState : BoilerStates]

ZoneFlowsIn ==
  {noZoneFlow} \cup
  {[zoneId |-> <<"z", "1">>, flowGpm |-> Q(k, 10), supplyTemp |-> I(150),
    returnTemp |-> I(130), btuDelivered |-> I(30000)] : k \in {0, 1, 2, 3, 60}}

EmitterCalls ==
  [fn : {"calculateEmitterState"}, zoneFlow : ZoneFlowsIn, emittersInZone : 0..MaxEmitters]

Temps == {I(-5), I(0), I(35), I(70), I(75)}

ScaleCalls ==
  [fn : {"scaleHeatLossToOutdoorTemp"}, designLoss : {I(40000), I(0), I(-7), PInf},
   indoorTemp : Temps, outdoorTemp : Temps, designOutdoorTemp : Temps]

\* port coordinates off the 20-grid, on both sides of the origin
Coords == {I(15 * k - 15) : k \in 0..MaxCoord}
Positions == [x : Coords, y : Coords]

PathCalls ==
  [fn : {"generateSmartOrthogonalPath"}, from : Positions, to : Positions,
   pipeType : {"supply", "return"}, gridSize : {I(20), I(1), I(0), I(-20)}]

InitCalc ==
  /\ pc = "call"
  /\ call \in ZoneFlowCalls \cup EmitterCalls \cup ScaleCalls \cup PathCalls
  /\ ret = <<>>
  /\ store = <<>>
  /\ steps = 0

CalculateZoneFlows ==
  /\ pc = "call" /\ call.fn = "calculateZoneFlows"
  /\ ret' = calculateZoneFlows(call.zoneDemands, call.boilerState)
  /\ pc' = "done" /\ UNCHANGED <<call, store, steps>>

CalculateEmitterState ==
  /\ pc = "call" /\ call.fn = "calculateEmitterState"
  /\ ret' = calculateEmitterState(call.zoneFlow, call.emittersInZone)
  /\ pc' = "done" /\ UNCHANGED <<call, store, steps>>

ScaleHeatLossToOutdoorTemp ==
  /\ pc = "call" /\ call.fn = "scaleHeatLossToOutdoorTemp"
  /\ ret' = scaleHeatLossToOutdoorTemp(call.designLoss, call.indoorTemp, call.outdoorTemp,
                                       call.designOutdoorTemp)
  /\ pc' = "done" /\ UNCHANGED <<call, store, steps>>

GenerateSmartOrthogonalPath ==
  /\ pc = "call" /\ call.fn = "generateSmartOrthogonalPath"
  /\ ret' = generateSmartOrthogonalPath(call.from, call.to, call.pipeType, call.gridSize)
  /\ pc' = "done" /\ UNCHANGED <<call, store, steps>>

NextCalc ==
  \/ CalculateZoneFlows
  \/ CalculateEmitterState
  \/ ScaleHeatLossToOutdoorTemp
  \/ GenerateSmartOrthogonalPath

SpecCalc == InitCalc /\ [][NextCalc]_vars

CalcDone(fn) == pc = "done" /\ call.fn = fn

\* x rounded to one decimal, as the engine reports flows
Round10(x) == Div(MathRound(Mul(x, I(10))), I(10))

\* the sum of currentHeatLoss over the calling zones of a list
RECURSIVE CallingLoss(_)
CallingLoss(ds) ==
  IF ds = <<>> THEN I(0)
  ELSE Add(IF Head(ds).isCalling THEN Head(ds).currentHeatLoss ELSE I(0),
           CallingLoss(Tail(ds)))

IsAmbientZeroFlow(zf) ==
  zf.flowGpm = I(0) /\ zf.supplyTemp = I(70) /\ zf.returnTemp = I(70)

\* C4 as stated: when the boiler has flow F > 0, every calling zone gets
\* exactly F x (its currentHeatLoss / the sum over calling zones), here only asked
\* where that sum is positive, and every non-calling zone gets flow 0 at 70/70.
C4_ExactProportionalFlows ==
  (CalcDone("calculateZoneFlows") /\ Gt(call.boilerState.flowGpm, I(0))) =>
    \A i \in 1..Len(call.zoneDemands) :
      LET zone == call.zoneDemands[i]
          total == CallingLoss(call.zoneDemands)
      IN  IF zone.isCalling
          THEN Gt(total, I(0)) =>
                 ret[i].flowGpm = Mul(call.boilerState.flowGpm,
                                      Div(zone.currentHeatLoss, total))
          ELSE IsAmbientZeroFlow(ret[i])

\* C4 (amended): when the boiler has flow F > 0, every calling zone gets
\* F x (its currentHeatLoss / the sum over calling zones) rounded to one decimal
\* when that sum is positive; every non-calling zone, and every zone when the sum
\* is not positive, gets flow 0 with supply and return temperature 70.
C4_RoundedProportionalFlows ==
  (CalcDone("calculateZoneFlows") /\ Gt(call.boilerState.flowGpm, I(0))) =>
    /\ Len(ret) = Len(call.zoneDemands)
    /\ \A i \in 1..Len(call.zoneDemands) :
         LET zone == call.zoneDemands[i]
             total == CallingLoss(call.zoneDemands)
         IN  /\ ret[i].zoneId = zone.zoneId
             /\ IF zone.isCalling /\ Gt(total, I(0))
                THEN ret[i].flowGpm = Round10(Mul(call.boilerState.flowGpm,
                                                  Div(zone.currentHeatLoss, total)))
                ELSE IsAmbientZeroFlow(ret[i])

\* two calling zones share a flow of 5 gpm 1:2, and the smaller share is reported as 1.7
C4_Witness ==
  /\ CalcDone("calculateZoneFlows")
  /\ call.boilerState.flowGpm = I(5)
  /\ Len(call.zoneDemands) = 2
  /\ \A i \in 1..2 : call.zoneDemands[i].isCalling
  /\ call.zoneDemands[1].currentHeatLoss = I(1000)
  /\ call.zoneDemands[2].currentHeatLoss = I(2000)
  /\ ret[1].flowGpm = Q(17, 10)
  /\ ret[2].flowGpm = Q(33, 10)

\* C5: every emitter state has status 'off' if and only if its reported
\* flowGpm is 0, and 'running' otherwise.
C5_OffIffZeroFlow ==
  CalcDone("calculateEmitterState") =>
    /\ ret.status \in {"off", "running"}
    /\ ret.status = "off" <=> Eq(ret.flowGpm, I(0))

\* C9: scaleHeatLossToOutdoorTemp returns exactly designLoss when
\* outdoor = designOutdoor < indoor, and 0 whenever outdoor >= indoor or
\* indoor - designOutdoor <= 0.
C9_ScaleAtDesignAndClamp ==
  CalcDone("scaleHeatLossToOutdoorTemp") =>
    /\ (Eq(call.outdoorTemp, call.designOutdoorTemp)
          /\ Lt(call.designOutdoorTemp, call.indoorTemp)) => ret = call.designLoss
    /\ (Ge(call.outdoorTemp, call.indoorTemp)
          \/ Le(Sub(call.indoorTemp, call.designOutdoorTemp), I(0))) => ret = I(0)

\* at design conditions a design loss of 40000 comes back unchanged
C9_Witness ==
  /\ CalcDone("scaleHeatLossToOutdoorTemp")
  /\ call.outdoorTemp = call.designOutdoorTemp
  /\ Lt(call.designOutdoorTemp, call.indoorTemp)
  /\ call.designLoss = I(40000)
  /\ ret = I(40000)

\* a !== b
Differs(a, b) == ~Eq(a, b)

\* the number of axes in which two waypoints differ
AxesChanged(p, q) ==
  (IF Differs(p.x, q.x) THEN 1 ELSE 0) + (IF Differs(p.y, q.y) THEN 1 ELSE 0)

MaxLayoutComponents == 4
MaxLayoutConnections == 3
MaxBoundZones == 8
MaxLockComponents == 2

Placed(id, type, name, x, y, ports) ==
  [id |-> id, type |-> type, name |-> name, props |-> noProps,
   position |-> Pos(I(x), I(y)), rotation |-> 0, flippedH |-> FALSE, flippedV |-> FALSE,
   ports |-> ports]

InOutPorts == <<[id |-> "inlet", type |-> "return"], [id |-> "outlet", type |-> "supply"]>>
SupplyReturnPorts == <<[id |-> "supply", type |-> "supply"], [id |-> "return", type |-> "return"]>>

LayoutCatalog ==
  <<Placed("p1", "pump_variable", <<"P", "u", "m", "p">>, 0, 0, InOutPorts),
    Placed("e1", "baseboard", <<"1", "F", " ", "r", "a", "d">>, 200, 0, SupplyReturnPorts),
    Placed("v1", "zone_valve_2way", <<"2", "F", " ", "v", "a", "l", "v", "e">>, 100, 0,
           InOutPorts),
    Placed("m1", "mixing_valve", <<"M", "i", "x", " ", "A">>, 100, 100, InOutPorts),
    Placed("m2", "mixing_valve", <<"M", "i", "x", " ", "B">>, 200, 100, InOutPorts),
    Placed("e2", "radiant_floor", <<"L", "o", "o", "p">>, 300, 100, SupplyReturnPorts)>>

Link(from, fromPort, to, toPort) ==
  [fromComponentId |-> from, fromPortId |-> fromPort,
   toComponentId |-> to, toPortId |-> toPort]

LayoutConnections ==
  <<Link("p1", "outlet", "v1", "inlet"),
    Link("e1", "return", "v1", "outlet"),
    Link("e1", "supply", "m1", "outlet"),
    Link("m1", "inlet", "m2", "outlet"),
    Link("p1", "inlet", "m2", "inlet")>>

ZoneMapCalls ==
  [fn : {"buildComponentZoneMap"},
   components : SubLists(LayoutCatalog, MaxLayoutComponents),
   connections : SubLists(LayoutConnections, MaxLayoutConnections),
   zones : SubLists(ZoneCatalog, MaxZones)]

\* zone boxes: zone i of the list holds one baseboard when i is in occupied, and
\* the baseboard of zone unplaced (if any) has no position
Digits == <<"1", "2", "3", "4", "5", "6", "7", "8", "9">>
BoundZone(i) == [id |-> <<"z", Digits[i]>>, name |-> <<"Z", "o", "n", "e", " ", Digits[i]>>]
BoundIds == <<"e1", "e2", "e3", "e4", "e5", "e6", "e7", "e8", "e9">>
BoundComponent(i) ==
  Placed(BoundIds[i], "baseboard", <<"r", "a", "d">>, 100 * i, 0, SupplyReturnPorts)
BoundPump == Placed("p1", "pump_variable", <<"P", "u", "m", "p">>, 0, 200, InOutPorts)

BoundsCall(occupied, unplaced, withPump) ==
  LET components ==
        Pick([i \in 1..MaxBoundZones |-> BoundComponent(i)], occupied)
          \o (IF withPump THEN <<BoundPump>> ELSE <<>>)
  IN  [fn |-> "calculateZoneBounds",
       components |-> components,
       positions |->
         [id \in {components[i].id : i \in 1..Len(components)}
                   \ (IF unplaced = 0 THEN {} ELSE {BoundIds[unplaced]})
            |-> (CHOOSE c \in {components[i] : i \in 1..Len(components)} : c.id = id).position],
       componentZoneMap |->
         [id \in {components[i].id : i \in 1..Len(components)} |->
            IF id = "p1" THEN mechanical
            ELSE BoundZone(CHOOSE i \in 1..MaxBoundZones : BoundIds[i] = id).id],
       zones |-> [i \in 1..MaxBoundZones |-> BoundZone(i)],
       padding |-> I(40)]

BoundsCalls ==
  {BoundsCall(occupied, unplaced, withPump) :
     occupied \in SUBSET (1..MaxBoundZones), unplaced \in 0..MaxBoundZones,
     withPump \in BOOLEAN}

DagreCentres == {Pos(I(100), I(90)), Pos(I(250), I(90)), Pos(I(95), I(240))}

LayoutCallsOf(components) ==
  [fn : {"autoLayoutSystem"}, components : {components},
   connections : SubLists(LayoutConnections, 1),
   zones : SubLists(ZoneCatalog, 1),
   options : [gridSize : {I(20), I(0)}, zonePadding : {I(40)},
              lockedComponentIds : SUBSET {"p1", "e1", "v1"}],
   dagre : [{components[i].id : i \in 1..Len(components)} -> DagreCentres]]

LayoutCalls ==
  UNION {LayoutCallsOf(components) :
           components \in SubLists(SubSeq(LayoutCatalog, 1, 3), MaxLockComponents)}

InitLayout ==
  /\ pc = "call"
  /\ call \in ZoneMapCalls \cup BoundsCalls \cup LayoutCalls
  /\ ret = <<>>
  /\ store = <<>>
  /\ steps = 0

BuildComponentZoneMap ==
  /\ pc = "call" /\ call.fn = "buildComponentZoneMap"
  /\ ret' = buildComponentZoneMap(call.components, call.connections, call.zones)
  /\ pc' = "done" /\ UNCHANGED <<call, store, steps>>

CalculateZoneBounds ==
  /\ pc = "call" /\ call.fn = "calculateZoneBounds"
  /\ ret' = calculateZoneBounds(call.components, call.positions, call.componentZoneMap,
                                call.zones, call.padding)
  /\ pc' = "done" /\ UNCHANGED <<call, store, steps>>

AutoLayoutSystem ==
  /\ pc = "call" /\ call.fn = "autoLayoutSystem"
  /\ ret' = autoLayoutSystem(call.components, <<>>, call.connections, call.zones,
                             call.options, call.dagre)
  /\ pc' = "done" /\ UNCHANGED <<call, store, steps>>

NextLayout ==
  \/ BuildComponentZoneMap
  \/ CalculateZoneBounds
  \/ AutoLayoutSystem

SpecLayout == InitLayout /\ [][NextLayout]_vars

LayoutDone(fn) == pc = "done" /\ call.fn = fn

\* C16: autoLayoutSystem returns, for every component whose id is in
\* lockedComponentIds, exactly that component's input position, whatever dagre
\* computes and whatever the connections, zones and grid size are.
C16_LockedKeepPosition ==
  LayoutDone("autoLayoutSystem") =>
    \A i \in 1..Len(call.components) :
      call.components[i].id \in call.options.lockedComponentIds =>
        /\ call.components[i].id \in DOMAIN ret.componentPositions
        /\ ret.componentPositions[call.components[i].id] = call.components[i].position

\* a locked component that dagre would have moved, next to a component that it did move
C16_Witness ==
  /\ LayoutDone("autoLayoutSystem")
  /\ Len(call.components) = 2
  /\ call.options.lockedComponentIds = {call.components[1].id}
  /\ call.options.gridSize = I(20)
  /\ PlaceOf(call.components[1], {}, call.options.gridSize, call.dagre)
       # call.components[1].position
  /\ ret.componentPositions[call.components[1].id] = call.components[1].position
  /\ ret.componentPositions[call.components[2].id] # call.components[2].position

\* the zones of a calculateZoneBounds call that get a box: those with a component
\* that has a position
Emitted(i) ==
  \E id \in DOMAIN call.componentZoneMap :
     call.componentZoneMap[id] = call.zones[i].id /\ id \in DOMAIN call.positions
\* the number of boxes emitted before zone i
Rank(i) == Cardinality({j \in 1..(i - 1) : Emitted(j)})
MechanicalGray ==
  \A k \in 1..Len(ret) : ret[k].zoneId = mechanical => ret[k].color = "rgba(100, 100, 100, 0.12)"

\* C17 as stated: the color of an emitted zone is the palette entry at the zone's
\* index in the zones array (modulo 6), whether or not other zones are omitted,
\* and the mechanical box is gray.
C17_ColorByDeclarationIndex ==
  LayoutDone("calculateZoneBounds") =>
    /\ \A i \in 1..Len(call.zones) :
         Emitted(i) =>
           \E k \in 1..Len(ret) :
              /\ ret[k].zoneId = call.zones[i].id
              /\ ret[k].color = ZONE_COLORS[((i - 1) % 6) + 1]
    /\ MechanicalGray

\* C17 (amended): the boxes of the non-mechanical zones come in declaration order,
\* a zone without a placed component gets none, and the k-th box emitted (counting
\* from 0) has palette color k modulo 6, so a zone's color moves up when a zone
\* declared before it is omitted; the mechanical box comes last and is gray.
C17_ColorByEmittedRank ==
  LayoutDone("calculateZoneBounds") =>
    /\ \A i \in 1..Len(call.zones) :
         IF Emitted(i)
         THEN /\ Rank(i) + 1 \in 1..Len(ret)
              /\ ret[Rank(i) + 1].zoneId = call.zones[i].id
              /\ ret[Rank(i) + 1].color = ZONE_COLORS[(Rank(i) % 6) + 1]
         ELSE \A k \in 1..Len(ret) : ret[k].zoneId # call.zones[i].id
    /\ MechanicalGray
    /\ (\E id \in DOMAIN call.positions : call.componentZoneMap[id] = mechanical)
         => ret[Len(ret)].zoneId = mechanical

\* the first zone is empty, the seven zones after it are emitted: the second zone
\* gets the first color, the eighth gets it again, and the mechanical box is gray
C17_Witness ==
  /\ LayoutDone("calculateZoneBounds")
  /\ ~Emitted(1)
  /\ \A i \in 2..8 : Emitted(i)
  /\ Len(ret) = 8
  /\ ret[1].zoneId = call.zones[2].id /\ ret[1].color = "rgba(66, 133, 244, 0.15)"
  /\ ret[7].zoneId = call.zones[8].id /\ ret[7].color = "rgba(66, 133, 244, 0.15)"
  /\ ret[8].zoneId = mechanical /\ ret[8].color = "rgba(100, 100, 100, 0.12)"

\* the components of a buildComponentZoneMap call that the name heuristic is about
ZoneMapIndexes == 1..Len(call.components)
NameMatches(i, z) == NameMatchesZone(toLowerCase(call.components[i].name), call.zones[z])
HasNameMatch(i) ==
  /\ call.components[i].type \notin mechanicalTypes
  /\ \E z \in 1..Len(call.zones) : NameMatches(i, z)
EarliestMatch(i) ==
  call.zones[CHOOSE z \in 1..Len(call.zones) :
               NameMatches(i, z) /\ \A y \in 1..(z - 1) : ~NameMatches(i, y)].id
IsZoneValve(i) == call.components[i].type \in {"zone_valve_2way", "zone_valve_3way"}
\* the ids directly connected to component i
NeighbourIds(i) ==
  LET ns == Neighbors(call.connections, call.components[i].id)
  IN  {ns[j] : j \in 1..Len(ns)}

AfterTwoPasses ==
  SecondPass(1, FirstPass(call.components), call.components, call.connections, call.zones)

\* C19: zones spread at most one hop in the propagation pass: a component left
\* unassigned by the first two passes ends in a zone Z other than 'mechanical' only
\* if one of its directly connected neighbours was assigned Z by those two passes.
C19_OneHop ==
  LayoutDone("buildComponentZoneMap") =>
    \A i \in ZoneMapIndexes :
      (/\ call.components[i].id \notin DOMAIN AfterTwoPasses
       /\ ret[call.components[i].id] # mechanical)
        => \E n \in NeighbourIds(i) \cap DOMAIN AfterTwoPasses :
              AfterTwoPasses[n] = ret[call.components[i].id]

(***************************************************************************)
(* The store: documents and handler calls                                  *)
(***************************************************************************)
MaxSteps == 3
MaxStoreComponents == 2

defaultUI ==
  [gridSize |-> I(20), snapToGrid |-> TRUE, showZoneBounds |-> FALSE, zoneBounds |-> <<>>,
   pendingConnection |-> null]

\* a document with no pipes: the state after clearState and addComponent calls
\* (the components of the store's tests and a pump)
StoreCatalog ==
  <<Placed("b1", "boiler_gas", <<"T", "e", "s", "t", " ", "B", "o", "i", "l", "e", "r">>, 100, 100, SupplyReturnPorts),
    Placed("b2", "boiler_gas", <<"T", "e", "s", "t", " ", "B", "o", "i", "l", "e", "r">>, 300, 100, SupplyReturnPorts),
    Placed("p1", "pump_variable", <<"P", "u", "m", "p">>, 300, 200, InOutPorts)>>

\* the demo system the store starts with, after the removal of all components but
\* the air separator and the two zone valves (a reloaded document has no history)
DemoDocument ==
  [zones |-> <<[id |-> <<"d", "e", "m", "o", "-", "z", "o", "n", "e", "-", "1">>, name |-> <<"L", "i", "v", "i", "n", "g", " ", "R", "o", "o", "m", " ", "&", " ", "K", "i", "t", "c", "h", "e", "n">>], [id |-> <<"d", "e", "m", "o", "-", "z", "o", "n", "e", "-", "2">>, name |-> <<"M", "a", "s", "t", "e", "r", " ", "B", "e", "d", "r", "o", "o", "m">>]>>,
   components |->
     <<Placed("demo-air-separator", "air_separator", <<"A", "i", "r", " ", "S", "e", "p", "a", "r", "a", "t", "o", "r">>, 300, 160,
              <<[id |-> "left", type |-> "general"], [id |-> "right", type |-> "general"]>>),
       Placed("demo-zone1-valve", "zone_valve_2way", <<"Z", "o", "n", "e", " ", "1", " ", "V", "a", "l", "v", "e">>, 460, 100, InOutPorts),
       Placed("demo-zone2-valve", "zone_valve_2way", <<"Z", "o", "n", "e", " ", "2", " ", "V", "a", "l", "v", "e">>, 460, 260, InOutPorts)>>,
   pipes |->
     [pipeId \in {"demo-pipe-tee-zone1", "demo-pipe-tee-zone2"} |->
        IF pipeId = "demo-pipe-tee-zone1"
        THEN [id |-> pipeId, pipeType |-> "supply", fittings |-> [elbows90 |-> 2],
              waypoints |-> <<Pos(I(360), I(190)), Pos(I(420), I(190)), Pos(I(420), I(130)),
                              Pos(I(460), I(130))>>,
              startPortId |-> <<"demo-air-separator", "right">>,
              endPortId |-> <<"demo-zone1-valve", "inlet">>]
        ELSE [id |-> pipeId, pipeType |-> "supply", fittings |-> [elbows90 |-> 2],
              waypoints |-> <<Pos(I(420), I(190)), Pos(I(420), I(290)), Pos(I(460), I(290))>>,
              startPortId |-> <<"demo-air-separator", "right">>,
              endPortId |-> <<"demo-zone2-valve", "inlet">>]],
   connections |->
     <<[id |-> "demo-conn-4", pipeId |-> "demo-pipe-tee-zone1",
        fromComponentId |-> "demo-air-separator", fromPortId |-> "right",
        toComponentId |-> "demo-zone1-valve", toPortId |-> "inlet"],
       [id |-> "demo-conn-5", pipeId |-> "demo-pipe-tee-zone2",
        fromComponentId |-> "demo-air-separator", fromPortId |-> "right",
        toComponentId |-> "demo-zone2-valve", toPortId |-> "inlet"]>>]

Documents ==
  {[zones |-> <<>>, components |-> components, pipes |-> <<>>, connections |-> <<>>] :
     components \in SubLists(StoreCatalog, MaxStoreComponents)}
  \cup {DemoDocument}

\* the store created from a document: no history, nothing pending
NewStore(document) ==
  [zones |-> document.zones, components |-> document.components,
   pipes |-> document.pipes, connections |-> document.connections,
   ui |-> defaultUI, _history |-> <<>>, _historyIndex |-> -1, uuids |-> 0]

\* the store of the test "creates pipe and connection": two boilers joined by
\* startPipeConnection and completePipeConnection
TestStore ==
  completePipeConnection(
    startPipeConnection(
      NewStore([zones |-> <<>>, components |-> SubSeq(StoreCatalog, 1, 2),
                pipes |-> <<>>, connections |-> <<>>]),
      "b1", "supply", Pos(I(115), I(100))),
    "b2", "return", Pos(I(365), I(100)))

InitStore ==
  /\ pc = "idle"
  /\ call = [fn |-> "create"]
  /\ ret = <<>>
  /\ steps = 0
  /\ store \in {NewStore(document) : document \in Documents} \cup {TestStore}

\* a handler can be called: the number of calls of a run is bounded
Ready == pc = "idle" /\ steps < MaxSteps

\* the ports of the components on the canvas, each at its absolute position
PortsOnCanvas ==
  {[componentId |-> store.components[i].id, portId |-> store.components[i].ports[k].id,
    position |-> getAbsolutePortPosition(store.components[i],
                                         store.components[i].ports[k].id)] :
     i \in 1..Len(store.components), k \in 1..2}
ComponentIds == {store.components[i].id : i \in 1..Len(store.components)}
MovePositions == {Pos(I(100), I(100)), Pos(I(310), I(180))}
\* two layouts dagre may compute: the nodes in a row, the nodes in a column
DagreLayouts ==
  {[id \in ComponentIds |->
      Pos(I(90 + 150 * (CHOOSE i \in 1..Len(store.components) : store.components[i].id = id)),
          I(90))],
   [id \in ComponentIds |->
      Pos(I(90),
          I(90 + 150 * (CHOOSE i \in 1..Len(store.components) : store.components[i].id = id)))]}
LockedSets == {{}} \cup {{store.components[1].id} : i \in {j \in {1} : Len(store.components) > 0}}

StartPipeConnection ==
  \E port \in PortsOnCanvas :
     /\ Ready
     /\ call' = [fn |-> "startPipeConnection", componentId |-> port.componentId,
                 portId |-> port.portId, position |-> port.position]
     /\ store' = startPipeConnection(store, port.componentId, port.portId, port.position)
     /\ steps' = steps + 1
     /\ UNCHANGED <<pc, ret>>

CompletePipeConnection ==
  \E port \in PortsOnCanvas :
     /\ Ready
     /\ call' = [fn |-> "completePipeConnection", componentId |-> port.componentId,
                 portId |-> port.portId, position |-> port.position]
     /\ store' = completePipeConnection(store, port.componentId, port.portId, port.position)
     /\ steps' = steps + 1
     /\ UNCHANGED <<pc, ret>>

CancelPipeConnection ==
  /\ Ready
  /\ call' = [fn |-> "cancelPipeConnection"]
  /\ store' = cancelPipeConnection(store)
  /\ steps' = steps + 1
  /\ UNCHANGED <<pc, ret>>

MoveComponent ==
  \E id \in ComponentIds, position \in MovePositions :
     /\ Ready
     /\ call' = [fn |-> "moveComponent", id |-> id, position |-> position]
     /\ store' = moveComponent(store, id, position)
     /\ steps' = steps + 1
     /\ UNCHANGED <<pc, ret>>

RotateComponent ==
  \E id \in ComponentIds :
     /\ Ready
     /\ call' = [fn |-> "rotateComponent", id |-> id, degrees |-> 90]
     /\ store' = rotateComponent(store, id, 90)
     /\ steps' = steps + 1
     /\ UNCHANGED <<pc, ret>>

FlipComponent ==
  \E id \in ComponentIds, direction \in {"h", "v"} :
     /\ Ready
     /\ call' = [fn |-> "flipComponent", id |-> id, direction |-> direction]
     /\ store' = flipComponent(store, id, direction)
     /\ steps' = steps + 1
     /\ UNCHANGED <<pc, ret>>

RunAutoLayout ==
  \E lockedIds \in LockedSets, dagre \in DagreLayouts :
     /\ Ready
     /\ call' = [fn |-> "runAutoLayout", lockedIds |-> lockedIds, dagre |-> dagre]
     /\ store' = runAutoLayout(store, lockedIds, dagre)
     /\ steps' = steps + 1
     /\ UNCHANGED <<pc, ret>>

RemoveComponent ==
  \E id \in ComponentIds :
     /\ Ready
     /\ call' = [fn |-> "removeComponent", id |-> id]
     /\ store' = removeComponent(store, id)
     /\ steps' = steps + 1
     /\ UNCHANGED <<pc, ret>>

Undo ==
  /\ Ready
  /\ call' = [fn |-> "undo"]
  /\ store' = undo(store)
  /\ steps' = steps + 1
  /\ UNCHANGED <<pc, ret>>

Redo ==
  /\ Ready
  /\ call' = [fn |-> "redo"]
  /\ store' = redo(store)
  /\ steps' = steps + 1
  /\ UNCHANGED <<pc, ret>>

NextStore ==
  \/ StartPipeConnection
  \/ CompletePipeConnection
  \/ CancelPipeConnection
  \/ MoveComponent
  \/ RotateComponent
  \/ FlipComponent
  \/ RunAutoLayout
  \/ RemoveComponent
  \/ Undo
  \/ Redo

SpecStore == InitStore /\ [][NextStore]_vars

(***************************************************************************)
(* Properties of the store                                                 *)
(***************************************************************************)
\* the step is a call of the handler fn
Called(fn) == call'.fn = fn /\ steps' = steps + 1
\* the two ends of a connection
FromPort(conn) == <<conn.fromComponentId, conn.fromPortId>>
ToPort(conn) == <<conn.toComponentId, conn.toPortId>>
\* the connections (by index) of the store s that have the port as an end
ConnectionsAt(s, port) ==
  {i \in 1..Len(s.connections) :
     FromPort(s.connections[i]) = port \/ ToPort(s.connections[i]) = port}
AllPorts(s) ==
  UNION {{FromPort(s.connections[i]), ToPort(s.connections[i])} : i \in 1..Len(s.connections)}
NoSharedPort(s) == \A port \in AllPorts(s) : Cardinality(ConnectionsAt(s, port)) <= 1
\* the step completes a pending connection at a port other than the pending one
CompletesPending ==
  /\ Called("completePipeConnection")
  /\ store.ui.pendingConnection # null
  /\ <<store.ui.pendingConnection.fromComponentId, store.ui.pendingConnection.fromPortId>>
       # <<call'.componentId, call'.portId>>

\* C20: when a connection is pending and completePipeConnection is called with a
\* port other than the pending one, the store gains exactly one pipe and exactly
\* one connection; the connection owns the new pipe and runs from the pending
\* component and port to the given ones; the pending connection is cleared; the
\* pipes and connections it had are unchanged.
C20_CompleteAddsPipeAndConnection ==
  [][CompletesPending =>
       /\ Len(store'.connections) = Len(store.connections) + 1
       /\ SubSeq(store'.connections, 1, Len(store.connections)) = store.connections
       /\ Cardinality(DOMAIN store'.pipes \ DOMAIN store.pipes) = 1
       /\ DOMAIN store.pipes \subseteq DOMAIN store'.pipes
       /\ \A pipeId \in DOMAIN store.pipes : store'.pipes[pipeId] = store.pipes[pipeId]
       /\ LET conn == store'.connections[Len(store'.connections)]
          IN  /\ conn.pipeId \in DOMAIN store'.pipes \ DOMAIN store.pipes
              /\ store'.pipes[conn.pipeId].id = conn.pipeId
              /\ FromPort(conn) = <<store.ui.pendingConnection.fromComponentId,
                                    store.ui.pendingConnection.fromPortId>>
              /\ ToPort(conn) = <<call'.componentId, call'.portId>>
              /\ \A i \in 1..Len(store.connections) : store.connections[i].id # conn.id
       /\ store'.ui.pendingConnection = null
       /\ store'.components = store.components
    ]_vars

\* a completePipeConnection call has just connected the supply of b1 to the
\* return of b2 with a new pipe
C20_Witness ==
  /\ call.fn = "completePipeConnection"
  /\ call.componentId = "b2" /\ call.portId = "return"
  /\ store.ui.pendingConnection = null
  /\ Len(store.connections) = 1
  /\ store.connections[1].id = uuid(store.uuids)
  /\ FromPort(store.connections[1]) = <<"b1", "supply">>
  /\ ToPort(store.connections[1]) = <<"b2", "return">>
  /\ DOMAIN store.pipes = {store.connections[1].pipeId}
  /\ store.pipes[store.connections[1].pipeId].pipeType = "supply"

\* C15 as stated: in every state of the store no (componentId, portId) pair is an
\* end of more than one connection.
C15_NoSharedPort == NoSharedPort(store)

\* C15 (amended): startPipeConnection changes no connection, and
\* completePipeConnection connects without looking at the connections there are:
\* when no port is shared and a pending connection is completed at another port,
\* no port is shared afterwards if and only if neither the pending port nor the
\* target port was an end of a connection already.
C15_SharedIffPortInUse ==
  [][/\ Called("startPipeConnection") => store'.connections = store.connections
     /\ (CompletesPending /\ NoSharedPort(store)) =>
          (NoSharedPort(store') <=>
             /\ ConnectionsAt(store, <<store.ui.pendingConnection.fromComponentId,
                                       store.ui.pendingConnection.fromPortId>>) = {}
             /\ ConnectionsAt(store, <<call'.componentId, call'.portId>>) = {})
    ]_vars

\* the supply of b1, already connected to the return of b2, has been connected a
\* second time, to the supply of b2
C15_Witness ==
  /\ call.fn = "completePipeConnection"
  /\ Len(store.connections) = 2
  /\ FromPort(store.connections[1]) = <<"b1", "supply">>
  /\ FromPort(store.connections[2]) = <<"b1", "supply">>
  /\ ToPort(store.connections[1]) = <<"b2", "return">>
  /\ ToPort(store.connections[2]) = <<"b2", "supply">>
  /\ Cardinality(DOMAIN store.pipes) = 2

\* the connections of the store s that have the component id at an end
ConnectionsOf(s, id) ==
  {s.connections[i] : i \in {j \in 1..Len(s.connections) :
                               \/ s.connections[j].fromComponentId = id
                               \/ s.connections[j].toComponentId = id}}
ConnectionSet(s) == {s.connections[i] : i \in 1..Len(s.connections)}

\* C14: removeComponent(id) deletes the component, every connection whose from- or
\* to-component is id and the pipe each such connection owns; afterwards no
\* connection references id. The other components, connections and pipes stay.
C14_RemoveCascades ==
  [][Called("removeComponent") =>
       /\ ~HasComponent(store'.components, call'.id)
       /\ \A conn \in ConnectionsOf(store, call'.id) :
            conn \notin ConnectionSet(store') /\ conn.pipeId \notin DOMAIN store'.pipes
       /\ ConnectionsOf(store', call'.id) = {}
       /\ ConnectionSet(store') = ConnectionSet(store) \ ConnectionsOf(store, call'.id)
       /\ DOMAIN store'.pipes =
            DOMAIN store.pipes \ {conn.pipeId : conn \in ConnectionsOf(store, call'.id)}
       /\ \A pipeId \in DOMAIN store'.pipes : store'.pipes[pipeId] = store.pipes[pipeId]
       /\ \A i \in 1..Len(store.components) :
            store.components[i].id # call'.id =>
              \E j \in 1..Len(store'.components) : store'.components[j] = store.components[i]
    ]_vars

\* the first zone valve of the demo has just been removed, with its connection
\* and pipe (the snapshot taken before still has them); the connection and the
\* pipe of the second valve are there
C14_Witness ==
  /\ call.fn = "removeComponent" /\ call.id = "demo-zone1-valve"
  /\ Len(store.components) = 2
  /\ Len(store.connections) = 1 /\ store.connections[1].id = "demo-conn-5"
  /\ DOMAIN store.pipes = {"demo-pipe-tee-zone2"}
  /\ Len(store._history) = 1
  /\ Len(store._history[1].connections) = 2
  /\ DOMAIN store._history[1].pipes = {"demo-pipe-tee-zone1", "demo-pipe-tee-zone2"}

\* the connections of the store whose pipe and two components exist
Complete(conn) ==
  /\ conn.pipeId \in DOMAIN store.pipes
  /\ HasComponent(store.components, conn.fromComponentId)
  /\ HasComponent(store.components, conn.toComponentId)
First(waypoints) == waypoints[1]
Last(waypoints) == waypoints[Len(waypoints)]

\* C13: for every connection whose pipe and two components exist, the pipe's first
\* waypoint is the current absolute position of the from-port and its last
\* waypoint the current absolute position of the to-port.
C13_EndsAtPorts ==
  \A conn \in ConnectionSet(store) :
    Complete(conn) =>
      /\ First(store.pipes[conn.pipeId].waypoints) =
           getAbsolutePortPosition(ComponentOf(store.components, conn.fromComponentId),
                                   conn.fromPortId)
      /\ Last(store.pipes[conn.pipeId].waypoints) =
           getAbsolutePortPosition(ComponentOf(store.components, conn.toComponentId),
                                   conn.toPortId)

\* the number of coordinates two points share
Shared(a, b) == (IF a.x = b.x THEN 1 ELSE 0) + (IF a.y = b.y THEN 1 ELSE 0)
Segments(waypoints) == 1..(Len(waypoints) - 1)

\* C12 as stated: in every state of the store the two ends of every segment of
\* every pipe share exactly one coordinate.
C12_ExactlyOneCoordinate ==
  \A pipeId \in DOMAIN store.pipes :
    \A k \in Segments(store.pipes[pipeId].waypoints) :
      Shared(store.pipes[pipeId].waypoints[k], store.pipes[pipeId].waypoints[k + 1]) = 1

\* C12 (amended): in every state reached by completePipeConnection, moveComponent,
\* rotateComponent, flipComponent, runAutoLayout, removeComponent, undo and redo,
\* every pipe has at least two waypoints and the two ends of every segment share
\* at least one coordinate: a segment is horizontal, vertical or of length zero,
\* never diagonal.
C12_AxisAligned ==
  \A pipeId \in DOMAIN store.pipes :
    /\ Len(store.pipes[pipeId].waypoints) >= 2
    /\ \A k \in Segments(store.pipes[pipeId].waypoints) :
         Shared(store.pipes[pipeId].waypoints[k], store.pipes[pipeId].waypoints[k + 1]) >= 1

\* redo has brought back the layout that undo had taken away: the pipe between
\* the two boilers, whose middle segment had length zero before the layout, now
\* runs by the layout's route
C12_Witness ==
  /\ call.fn = "redo"
  /\ store._historyIndex = 0 /\ Len(store._history) = 2
  /\ DOMAIN store.pipes = {"u1"}
  /\ store._history[1].pipes["u1"].waypoints[2] = store._history[1].pipes["u1"].waypoints[3]
  /\ store.pipes["u1"].waypoints # store._history[1].pipes["u1"].waypoints
  /\ store.pipes["u1"].waypoints = store._history[2].pipes["u1"].waypoints

\* the polyline the layout pass gives a pipe with these ends and this role
LayoutRoute(pipe) ==
  generateSmartOrthogonalPath(First(pipe.waypoints), Last(pipe.waypoints), pipe.pipeType,
                              store.ui.gridSize)
\* the pipes the last call has written
Written ==
  IF call.fn = "completePipeConnection"
  THEN {pipeId \in DOMAIN store.pipes : store.uuids >= 2 /\ pipeId = uuid(store.uuids - 1)}
  ELSE IF call.fn = "moveComponent"
  THEN {pipeId \in DOMAIN store.pipes :
          Touching(store.components, store.pipes, store.connections, call.id, pipeId) # {}}
  ELSE IF call.fn = "runAutoLayout"
  THEN {pipeId \in DOMAIN store.pipes :
          RoutedBy(store.components, store.pipes, store.connections, pipeId) # {}}
  ELSE {}

\* C11: the polyline stored when a pipe is created (completePipeConnection), the
\* one stored when a connected component is dragged (moveComponent) and the one
\* the layout pass stores (runAutoLayout) are the same for the same two ends and
\* the same role: each is the route the layout pass computes for them.
C11_SameRouting ==
  \A pipeId \in Written : store.pipes[pipeId].waypoints = LayoutRoute(store.pipes[pipeId])

(***************************************************************************)
(* Radiant floors in the simulation tick                                   *)
(***************************************************************************)
\* the zone of the call that the component id is classified into, if it is one
SimZonesOf(id) == {i \in 1..Len(call.zones) : call.zones[i].id = SimZoneMap[id]}
SimRadiantIds == SimIdsOfType({"radiant_floor"}) \cap DOMAIN ret

\* C26 as stated: in every result of runSimulationTick every component of type
\* radiant_floor reports a supplyTemp of at most 120, whatever zone it is in.
C26_RadiantAtMost120 ==
  SimDone => \A id \in SimRadiantIds : Le(ret[id].supplyTemp, I(120))

\* C26 (amended): a radiant_floor component reports a supplyTemp of at most 120
\* when the zone it is classified into has emitterType radiant_floor, when that
\* zone is not calling and when it is in no zone of the list; in a calling zone of
\* another emitterType it reports the boiler's supply temperature.
C26_RadiantZoneAtMost120 ==
  SimDone =>
    \A id \in SimRadiantIds :
      /\ (\A i \in SimZonesOf(id) :
            call.zones[i].emitterType = "radiant_floor" \/ ~SimDemands[i].isCalling)
           => Le(ret[id].supplyTemp, I(120))
      /\ \A i \in SimZonesOf(id) :
           (/\ call.zones[i].emitterType # "radiant_floor"
            /\ ret[id].status # "off")
             => \E b \in SimIdsOfType(SimBoilerTypes) \cap DOMAIN ret :
                  ret[id].supplyTemp = ret[b].supplyTemp

\* the radiant floor of a calling radiant zone designed for 140 is supplied at 120
\* while the boiler supplies more than 120
C26_Witness ==
  /\ SimDone
  /\ \E id \in SimRadiantIds :
       /\ ret[id].status = "running"
       /\ ret[id].supplyTemp = I(120)
       /\ \E i \in SimZonesOf(id) :
            /\ call.zones[i].emitterType = "radiant_floor"
            /\ call.zones[i].designWaterTemp = I(140)
       /\ \E b \in SimIdsOfType(SimBoilerTypes) \cap DOMAIN ret : Gt(ret[b].supplyTemp, I(120))

(***************************************************************************)
(* store: components, pipes, the pending connection and templates          *)
(***************************************************************************)
\* addComponent: the component under a fresh id, after the others (the z-index
\* it is given is read by the renderer only and is left out)
addComponent(s, component) ==
  [s EXCEPT !.components = Append(s.components, [component EXCEPT !.id = uuid(s.uuids + 1)]),
            !.uuids = s.uuids + 1]

removePipe(s, id) ==
  [pushHistory(s) EXCEPT
     !.pipes = [pipeId \in DOMAIN s.pipes \ {id} |-> s.pipes[pipeId]],
     !.connections = SelectSeq(s.connections, LAMBDA c : c.pipeId # id)]

updatePipeConnectionMouse(s, position) ==
  IF s.ui.pendingConnection # null
  THEN [s EXCEPT !.ui.pendingConnection.currentMousePosition = position]
  ELSE s

\* mutant: the history is emptied and the index is kept
loadTemplate_KeepIndex(s, template) ==
  IF template = null THEN s
  ELSE [s EXCEPT !._history = <<>>,
                 !.zones = template.zones, !.components = template.components,
                 !.pipes = template.pipes, !.connections = template.connections,
                 !.ui = defaultUI]

\* loadTemplate: template is what getTemplateById finds, null when there is no
\* template of that id
loadTemplate(s, template) ==
  IF template = null THEN s
  ELSE [s EXCEPT !._history = <<>>, !._historyIndex = -1,
                 !.zones = template.zones, !.components = template.components,
                 !.pipes = template.pipes, !.connections = template.connections,
                 !.ui = defaultUI]

canUndo(s) == s._historyIndex >= 0
canRedo(s) == s._historyIndex < Len(s._history) - 1

\* the Delete / Backspace handler of the canvas, for one selected id
deleteSelected(s, id) == removePipe(removeComponent(s, id), id)

(***************************************************************************)
(* The store and its history: documents and handler calls                  *)
(***************************************************************************)
MaxPushes == 49
MaxHistoryComponents == 3

RECURSIVE Pushed(_, _)
\* the store after n calls of pushHistory
Pushed(s, n) == IF n = 0 THEN s ELSE pushHistory(Pushed(s, n - 1))

BlankDocument ==
  [zones |-> <<>>, components |-> SubSeq(StoreCatalog, 1, 2), pipes |-> <<>>,
   connections |-> <<>>]
Templates == {null, BlankDocument}
PipeIds == DOMAIN store.pipes

InitHistory ==
  /\ pc = "idle"
  /\ call = [fn |-> "create"]
  /\ ret = <<>>
  /\ store \in {NewStore(BlankDocument), NewStore(DemoDocument), TestStore,
                Pushed(TestStore, MaxPushes)}
  /\ steps = 0

AddComponent ==
  /\ Ready
  /\ Len(store.components) < MaxHistoryComponents
  /\ call' = [fn |-> "addComponent", component |-> StoreCatalog[3]]
  /\ store' = addComponent(store, StoreCatalog[3])
  /\ steps' = steps + 1
  /\ UNCHANGED <<pc, ret>>

RemovePipe ==
  \E id \in PipeIds :
     /\ Ready
     /\ call' = [fn |-> "removePipe", id |-> id]
     /\ store' = removePipe(store, id)
     /\ steps' = steps + 1
     /\ UNCHANGED <<pc, ret>>

UpdatePipeConnectionMouse ==
  /\ Ready
  /\ call' = [fn |-> "updatePipeConnectionMouse", position |-> Pos(I(200), I(150))]
  /\ store' = updatePipeConnectionMouse(store, Pos(I(200), I(150)))
  /\ steps' = steps + 1
  /\ UNCHANGED <<pc, ret>>

PushHistory ==
  /\ Ready
  /\ call' = [fn |-> "pushHistory"]
  /\ store' = pushHistory(store)
  /\ steps' = steps + 1
  /\ UNCHANGED <<pc, ret>>

LoadTemplate ==
  \E template \in Templates :
     /\ Ready
     /\ call' = [fn |-> "loadTemplate", template |-> template]
     /\ store' = loadTemplate(store, template)
     /\ steps' = steps + 1
     /\ UNCHANGED <<pc, ret>>

DeleteSelected ==
  \E id \in ComponentIds \cup PipeIds :
     /\ Ready
     /\ call' = [fn |-> "deleteSelected", id |-> id]
     /\ store' = deleteSelected(store, id)
     /\ steps' = steps + 1
     /\ UNCHANGED <<pc, ret>>

NextHistory ==
  \/ AddComponent
  \/ StartPipeConnection
  \/ UpdatePipeConnectionMouse
  \/ CompletePipeConnection
  \/ CancelPipeConnection
  \/ RemoveComponent
  \/ RemovePipe
  \/ DeleteSelected
  \/ PushHistory
  \/ RunAutoLayout
  \/ Undo
  \/ Redo
  \/ LoadTemplate

SpecHistory == InitHistory /\ [][NextHistory]_vars

(***************************************************************************)
(* Properties of the store and its history                                 *)
(***************************************************************************)
\* the document: what a snapshot holds
Doc(s) ==
  [zones |-> s.zones, components |-> s.components, pipes |-> s.pipes,
   connections |-> s.connections]

\* C21: completePipeConnection on the component and port the connection is pending
\* at creates no pipe and no connection; completePipeConnection and
\* updatePipeConnectionMouse with no connection pending leave the store (pipes,
\* connections and the pending state included) unchanged.
C21_NoSelfConnectionNoPending ==
  [][/\ (/\ Called("completePipeConnection")
         /\ store.ui.pendingConnection # null
         /\ <<store.ui.pendingConnection.fromComponentId,
              store.ui.pendingConnection.fromPortId>> = <<call'.componentId, call'.portId>>)
          => /\ store'.pipes = store.pipes
             /\ store'.connections = store.connections
     /\ (/\ Called("completePipeConnection") \/ Called("updatePipeConnectionMouse")
         /\ store.ui.pendingConnection = null)
          => store' = store
    ]_vars

\* the second call was completePipeConnection on the supply of b1 and the store of
\* the two boilers is as it was created: the call closed a connection pending at
\* that port, or nothing was pending
C21_Witness ==
  /\ call.fn = "completePipeConnection"
  /\ call.componentId = "b1" /\ call.portId = "supply"
  /\ steps = 2
  /\ store = NewStore(BlankDocument)

C23_UndoThenRedo ==
  canUndo(store) => Doc(redo(undo(store))) = Doc(store)

\* C24: the history never holds more than MAX_HISTORY_SIZE snapshots.
C24_AtMostMaxHistory == Len(store._history) <= MAX_HISTORY_SIZE

\* C25: whenever canRedo() is true, redo() restores a document: the snapshot it
\* reads, the one after the new index, exists.
C25_RedoRestores ==
  canRedo(store) => store._historyIndex + 3 \in 1..Len(store._history)

\* C27: after the Delete handler has removed a selected component, one undo()
\* brings back the document there was before, the component included.
C27_DeleteThenUndo ==
  [][(/\ call.fn = "deleteSelected"
      /\ Called("undo")
      /\ HasComponent(store._history[Len(store._history) - 1].components, call.id))
       => /\ HasComponent(store'.components, call.id)
          /\ Doc(store') = store._history[Len(store._history) - 1]
    ]_vars

\* C28: the two components and the pipe of every connection exist.
C28_ConnectionsResolve ==
  \A conn \in ConnectionSet(store) :
    /\ HasComponent(store.components, conn.fromComponentId)
    /\ HasComponent(store.components, conn.toComponentId)
    /\ conn.pipeId \in DOMAIN store.pipes

\* C30: -1 <= _historyIndex <= _history.length - 1, so that undo() reads a
\* snapshot that exists.
C30_IndexInHistory ==
  /\ -1 <= store._historyIndex
  /\ store._historyIndex <= Len(store._history) - 1
  /\ canUndo(store) => store._historyIndex + 1 \in 1..Len(store._history)

\* undo has just appended the current document to a full history and stepped
\* back from its last snapshot: the index is two below the new length
C30_Witness ==
  /\ call.fn = "undo"
  /\ Len(store._history) = MAX_HISTORY_SIZE + 1
  /\ store._historyIndex = MAX_HISTORY_SIZE - 2
  /\ canUndo(store) /\ canRedo(store)

(***************************************************************************)
(* store: the simulation clock                                             *)
(***************************************************************************)
MaxTickSteps == 5

startSimulation(s) ==
  [s EXCEPT !.simulation.settings.running = TRUE, !.simulation.settings.paused = FALSE]
pauseSimulation(s) == [s EXCEPT !.simulation.settings.paused = TRUE]
stopSimulation(s) ==
  [s EXCEPT !.simulation.settings.running = FALSE, !.simulation.settings.paused = FALSE,
            !.simulation.settings.elapsedSeconds = I(0),
            !.simulation.componentStates = <<>>]
setOutdoorTemp(s, temp) == [s EXCEPT !.simulation.settings.outdoorTemp = temp]
setTimeScale(s, scale) == [s EXCEPT !.simulation.settings.timeScale = scale]

\* the store one tick later
Ticked(s, dt) ==
  [s EXCEPT
     !.simulation.settings.elapsedSeconds =
        Add(s.simulation.settings.elapsedSeconds, Mul(dt, s.simulation.settings.timeScale)),
     !.simulation.componentStates =
        runSimulationTick(s.building, s.zones, s.components, s.connections,
                          s.simulation.settings.outdoorTemp)]

\* mutant: a paused simulation ticks on
tickSimulation_IgnorePause(s, dt) ==
  IF s.simulation.settings.running THEN Ticked(s, dt) ELSE s

tickSimulation(s, dt) ==
  IF s.simulation.settings.running /\ ~s.simulation.settings.paused
  THEN Ticked(s, dt)
  ELSE s

\* the simulation of a new store (the demo's: running) and of a cleared one
demoSimulationState ==
  [settings |-> [running |-> TRUE, paused |-> FALSE, timeScale |-> I(1),
                 outdoorTemp |-> I(25), elapsedSeconds |-> I(0)],
   componentStates |->
     [id \in {"b1"} |-> [supplyTemp |-> I(165), returnTemp |-> I(145), flowGpm |-> I(8),
                         status |-> "firing"]]]
clearedSimulation ==
  [settings |-> [running |-> FALSE, paused |-> FALSE, timeScale |-> I(1),
                 outdoorTemp |-> I(30), elapsedSeconds |-> I(0)],
   componentStates |-> <<>>]

InitTicks ==
  /\ pc = "idle"
  /\ call = [fn |-> "create"]
  /\ ret = <<>>
  /\ store \in [building : {BaseBuilding}, zones : {SubSeq(ZoneCatalog, 1, 2)},
                components : {Pick(ComponentCatalog, {1, 3, 6})}, connections : {<<>>},
                simulation : {demoSimulationState, clearedSimulation}]
  /\ steps = 0

Clocked == pc = "idle" /\ steps < MaxTickSteps

StartSimulation ==
  /\ Clocked
  /\ call' = [fn |-> "startSimulation"]
  /\ store' = startSimulation(store)
  /\ steps' = steps + 1
  /\ UNCHANGED <<pc, ret>>

PauseSimulation ==
  /\ Clocked
  /\ call' = [fn |-> "pauseSimulation"]
  /\ store' = pauseSimulation(store)
  /\ steps' = steps + 1
  /\ UNCHANGED <<pc, ret>>

StopSimulation ==
  /\ Clocked
  /\ call' = [fn |-> "stopSimulation"]
  /\ store' = stopSimulation(store)
  /\ steps' = steps + 1
  /\ UNCHANGED <<pc, ret>>

SetOutdoorTemp ==
  \E temp \in {I(25), I(75)} :
     /\ Clocked
     /\ call' = [fn |-> "setOutdoorTemp", temp |-> temp]
     /\ store' = setOutdoorTemp(store, temp)
     /\ steps' = steps + 1
     /\ UNCHANGED <<pc, ret>>

SetTimeScale ==
  \E scale \in {I(1), I(10)} :
     /\ Clocked
     /\ call' = [fn |-> "setTimeScale", scale |-> scale]
     /\ store' = setTimeScale(store, scale)
     /\ steps' = steps + 1
     /\ UNCHANGED <<pc, ret>>

TickSimulation ==
  \E dt \in {I(1), Q(1, 60)} :
     /\ Clocked
     /\ call' = [fn |-> "tickSimulation", dt |-> dt]
     /\ store' = tickSimulation(store, dt)
     /\ steps' = steps + 1
     /\ UNCHANGED <<pc, ret>>

NextTicks ==
  \/ StartSimulation
  \/ PauseSimulation
  \/ StopSimulation
  \/ SetOutdoorTemp
  \/ SetTimeScale
  \/ TickSimulation

SpecTicks == InitTicks /\ [][NextTicks]_vars

\* the simulation may advance: it is running and not paused
Advancing(s) == s.simulation.settings.running /\ ~s.simulation.settings.paused

====
